---- MODULE Spec2Model ----
(***************************************************************************)
(* The request dispatch engine of llmao: the key pool (router/key_pool.rs), *)
(* the rate limit tracker (client/rate_limiter.rs), the retrying transport  *)
(* (client/http.rs) and the completion loop (lib.rs).                       *)
(*                                                                          *)
(* Time is a millisecond clock `now`.  An Option<T> over numbers is the     *)
(* number, or None.                                                         *)
(***************************************************************************)
EXTENDS Integers, Sequences, FiniteSets, TLC

\* Option::None of Option<Instant>, Option<Duration>, Option<u32>, Option<&ApiKey>
None == -1

(***************************************************************************)
(* Bounds of the model                                                      *)
(***************************************************************************)
\* largest pool built by the key pool specifications
MaxKeys == 2
\* the environment's clock stops ticking here (sleeps are not capped)
MaxTime == 2000
\* a caller starts no further select() once the cursor is here
MaxCursor == 4
\* the largest max_retries a caller passes to post_with_retry
MaxRetriesArg == 3

\* the number of chunks of a stream
MaxChunks == 3
\* the largest index of a tool call
MaxIndex == 2
\* the number of answers fixed beforehand
ScriptLen == 2
\* the number of lines of a streamed body
MaxLines == 3
\* the length of a route string
MaxRouteLen == 7
\* the largest request count of a key
MaxUsage == 1
\* the largest max_retries of a call that is answered with failures only
MaxBackoffRetries == 7
\* the length of a duration string
MaxDurationLen == 3
\* the number of keys of the pool a completion rotates through
RotationKeys == 3

\* length of the window of results kept in `history`
Window == MaxKeys + 1

Threads == {"t1", "t2"}
\* the provider whose pool the key pool specifications exercise
PoolProvider == "p1"
\* what one environment tick adds to the clock
TickSteps == {1000}
\* the cooldown durations callers of the pool pass
Durations == {1500, 2000}
Strategies == {"RoundRobin", "LeastRecentlyUsed", "Random"}
Providers == {"p1", "p2"}

VARIABLES
    now,        \* Instant::now(), in ms
    key_pools,  \* LlmClient.key_pools: provider -> KeyPool
    sel,        \* per thread: the frame of its KeyPool::get_key call
    disturbed,  \* per thread: a cooldown was set, cleared or expired, or a usage recorded, during its call
    history,    \* the latest results of consecutive select() calls that met no cooldown
    providers,  \* RateLimitTracker.providers: provider -> ProviderRateLimit
    paired_reset, \* per provider: the deadline update_from_rate_limit_error stored with the retry-after
    last_call,  \* the latest call of the tracker's interface, its arguments and result
    provider_registry, \* per known provider: what ProviderConfig::get_api_keys returns
    comp,       \* per thread: the frame of its LlmClient::completion call
    http,       \* per thread: the frame of its HttpClient::post_with_retry call
    obs,        \* per thread: what its current call has done so far (requests sent, ...)
    script,     \* the provider's answers to the 1st, 2nd, ... request of a call, where they are fixed beforehand
    acc,        \* the StreamAccumulator of one streaming request
    fed,        \* the chunks process_chunk was called with so far, in order
    message,    \* Option<Message>: what into_message returned, once it has consumed acc
    recv,       \* the frame of the receive loop of LlmClient::completion_stream
    routing,    \* a route string, what ModelRoute::parse made of it, and what was asked of the route
    verdict,    \* the latest call of is_rate_limit_error: its arguments and its result
    parse_call  \* the latest call of parse_duration_string: its argument and its result

poolVars == <<key_pools, sel, disturbed, history>>
trackerVars == <<providers, paired_reset, last_call>>
dispatchVars == <<provider_registry, comp, http, obs>>
streamVars == <<script, acc, fed, message, recv, routing, verdict, parse_call>>
vars == <<now, poolVars, trackerVars, dispatchVars, streamVars>>

(***************************************************************************)
(* ApiKey                                                                   *)
(***************************************************************************)
\* ApiKey::new
NewApiKey(v) ==
    [value |-> v, rate_limited_until |-> None, request_count |-> 0, last_used |-> 0]

\* ApiKey::is_rate_limited
IsRateLimited(key) ==
    IF key.rate_limited_until # None THEN now < key.rate_limited_until ELSE FALSE

\* ApiKey::rate_limit_remaining
RateLimitRemaining(key) ==
    IF key.rate_limited_until # None
    THEN IF now < key.rate_limited_until THEN key.rate_limited_until - now ELSE None
    ELSE None

\* Option<Duration>::unwrap_or(Duration::ZERO)
UnwrapOrZero(opt) == IF opt = None THEN 0 ELSE opt

(***************************************************************************)
(* KeyPool                                                                  *)
(***************************************************************************)
\* KeyPool::new
NewKeyPool(values, strategy) ==
    [keys |-> [i \in 1..Len(values) |-> NewApiKey(values[i])],
     current_index |-> 0,
     strategy |-> strategy]

PoolLen(prov) == Len(key_pools[prov].keys)
KeyAt(prov, i) == key_pools[prov].keys[i]

\* the keys of the pool that are rate limited now
LimitedKeys(prov) == {i \in 1..PoolLen(prov) : IsRateLimited(KeyAt(prov, i))}

\* KeyPool::all_rate_limited
AllRateLimited(prov) ==
    \A i \in 1..PoolLen(prov) : IsRateLimited(KeyAt(prov, i))

SetMin(S) == CHOOSE x \in S : \A y \in S : x <= y

\* KeyPool::min_wait_time
MinWaitTime(prov) ==
    LET rems == {RateLimitRemaining(KeyAt(prov, i)) : i \in 1..PoolLen(prov)} \ {None}
    IN  IF rems = {} THEN None ELSE SetMin(rems)

\* the frame of a thread that is not inside get_key
IdleFrame ==
    [pc |-> "idle", prov |-> PoolProvider, idx |-> 0, attempts |-> 0,
     best |-> None, bestv |-> 0, avail |-> <<>>, result |-> None]

\* the window of results: an entry is appended, the oldest dropped when full
Push(h, e) == IF Len(h) < Window THEN Append(h, e) ELSE Append(Tail(h), e)

\* get_key returns `k` (a position of the pool, or None) to thread t
ReturnKey(t, k, attempts) ==
    LET f == sel[t]
        clean == attempts = 0 /\ k # None /\ LimitedKeys(f.prov) = {}
    IN  /\ sel' = [sel EXCEPT ![t] =
                      [IdleFrame EXCEPT !.pc = "ret", !.prov = f.prov,
                                        !.result = k, !.attempts = attempts]]
        /\ history' = IF clean
                      THEN Push(history, k)
                      ELSE <<>>

\* KeyPool::get_key: the empty pool, or the dispatch on the strategy
StartGetKey(t, prov) ==
    LET pool == key_pools[prov]
        f == [IdleFrame EXCEPT !.prov = prov]
    IN  IF Len(pool.keys) = 0
        THEN /\ sel' = [sel EXCEPT ![t] = [f EXCEPT !.pc = "ret"]]
             /\ history' = <<>>
             /\ UNCHANGED key_pools
        ELSE /\ sel' = [sel EXCEPT ![t] =
                          [f EXCEPT !.pc = CASE pool.strategy = "RoundRobin" -> "round_robin"
                                            [] pool.strategy = "LeastRecentlyUsed" -> "lru"
                                            [] OTHER -> "random",
                                    !.idx = 1]]
             /\ UNCHANGED <<key_pools, history>>

\* a caller of the pool calls get_key
GetKey(t) ==
    /\ sel[t].pc = "idle"
    /\ key_pools[PoolProvider].current_index < MaxCursor
    /\ StartGetKey(t, PoolProvider)
    /\ disturbed' = [disturbed EXCEPT ![t] = FALSE]
    /\ UNCHANGED <<now, trackerVars, dispatchVars, streamVars>>

\* a plausible slip: the cursor is read and not advanced
FetchAddLost(cur) == cur

\* AtomicUsize::fetch_add(1): the value stored
FetchAdd(cur) == cur + 1

\* a plausible slip: max_by_key where min_by_key was meant
MaxByKeyBetter(v, bestv) == v > bestv

\* min_by_key keeps the first of equal minima
MinByKeyBetter(v, bestv) == v < bestv

\* KeyPool::get_round_robin: one iteration of the loop (the fetch_add and the
\* check of the key it names), falling back once `attempts` reaches the length
RoundRobinStep(t) ==
    /\ sel[t].pc = "round_robin"
    /\ LET f == sel[t]
           pool == key_pools[f.prov]
           len == Len(pool.keys)
           idx == pool.current_index % len
           key == pool.keys[idx + 1]
       IN  /\ key_pools' = [key_pools EXCEPT ![f.prov].current_index = FetchAdd(@)]
           /\ IF ~IsRateLimited(key)
              THEN ReturnKey(t, idx + 1, f.attempts)
              ELSE /\ sel' = [sel EXCEPT ![t] =
                                [f EXCEPT !.attempts = @ + 1,
                                          !.pc = IF f.attempts + 1 < len
                                                 THEN "round_robin" ELSE "soonest",
                                          !.idx = 1]]
                   /\ history' = <<>>
    /\ UNCHANGED <<now, disturbed, trackerVars, dispatchVars, streamVars>>

\* KeyPool::get_lru: the filter and min_by_key, one key per step
LruStep(t) ==
    /\ sel[t].pc = "lru"
    /\ LET f == sel[t]
           pool == key_pools[f.prov]
           len == Len(pool.keys)
           key == pool.keys[f.idx]
           take == /\ ~IsRateLimited(key)
                   /\ (f.best = None \/ MinByKeyBetter(key.last_used, f.bestv))
           best == IF take THEN f.idx ELSE f.best
           bestv == IF take THEN key.last_used ELSE f.bestv
       IN  IF f.idx < len
           THEN /\ sel' = [sel EXCEPT ![t] =
                             [f EXCEPT !.idx = @ + 1, !.best = best, !.bestv = bestv]]
                /\ UNCHANGED history
           ELSE IF best # None
                THEN ReturnKey(t, best, f.attempts)
                ELSE /\ sel' = [sel EXCEPT ![t] =
                                  [f EXCEPT !.pc = "soonest", !.idx = 1,
                                            !.best = None, !.bestv = 0]]
                     /\ UNCHANGED history
    /\ UNCHANGED <<now, key_pools, disturbed, trackerVars, dispatchVars, streamVars>>

\* KeyPool::get_random: the filter, one key per step, then the draw
RandomStep(t) ==
    /\ sel[t].pc = "random"
    /\ LET f == sel[t]
           pool == key_pools[f.prov]
           len == Len(pool.keys)
           key == pool.keys[f.idx]
           available == IF IsRateLimited(key) THEN f.avail ELSE Append(f.avail, f.idx)
       IN  IF f.idx < len
           THEN /\ sel' = [sel EXCEPT ![t] = [f EXCEPT !.idx = @ + 1, !.avail = available]]
                /\ UNCHANGED history
           ELSE IF available = <<>>
                THEN /\ sel' = [sel EXCEPT ![t] =
                                  [f EXCEPT !.pc = "soonest", !.idx = 1, !.avail = <<>>]]
                     /\ UNCHANGED history
                ELSE \E j \in 1..Len(available) : ReturnKey(t, available[j], f.attempts)
    /\ UNCHANGED <<now, key_pools, disturbed, trackerVars, dispatchVars, streamVars>>

\* KeyPool::get_soonest_available: min_by_key over the remaining cooldowns,
\* each read with its own Instant::now(), one key per step
SoonestStep(t) ==
    /\ sel[t].pc = "soonest"
    /\ LET f == sel[t]
           pool == key_pools[f.prov]
           len == Len(pool.keys)
           rem == UnwrapOrZero(RateLimitRemaining(pool.keys[f.idx]))
           take == f.best = None \/ MinByKeyBetter(rem, f.bestv)
           best == IF take THEN f.idx ELSE f.best
           bestv == IF take THEN rem ELSE f.bestv
       IN  IF f.idx < len
           THEN /\ sel' = [sel EXCEPT ![t] =
                             [f EXCEPT !.idx = @ + 1, !.best = best, !.bestv = bestv]]
                /\ UNCHANGED history
           ELSE ReturnKey(t, best, f.attempts)
    /\ UNCHANGED <<now, key_pools, disturbed, trackerVars, dispatchVars, streamVars>>

\* the caller of get_key takes the result
TakeKey(t) ==
    /\ sel[t].pc = "ret"
    /\ comp[t].pc = "idle"
    /\ sel' = [sel EXCEPT ![t] = IdleFrame]
    /\ disturbed' = [disturbed EXCEPT ![t] = FALSE]
    /\ UNCHANGED <<now, key_pools, history, trackerVars, dispatchVars, streamVars>>

\* every thread inside get_key sees its call disturbed
Disturb == [t \in Threads |-> disturbed[t] \/ sel[t].pc # "idle"]

\* a plausible slip: setting the cooldown counts as a use of the key
SetRateLimitedCountsUsage(prov, i, duration) ==
    [key_pools EXCEPT ![prov].keys[i].rate_limited_until = now + duration,
                      ![prov].keys[i].request_count = @ + 1]

\* a plausible slip: a cooldown is only ever extended
SetRateLimitedKeepsLater(prov, i, duration) ==
    [key_pools EXCEPT ![prov].keys[i].rate_limited_until =
                          IF @ # None /\ @ > now + duration THEN @ ELSE now + duration]

\* ApiKey::mark_rate_limited on key i of the pool
SetRateLimited(prov, i, duration) ==
    [key_pools EXCEPT ![prov].keys[i].rate_limited_until = now + duration]

\* the first key of the pool whose value is `v`, or None
FindKey(prov, v) ==
    LET hits == {i \in 1..PoolLen(prov) : KeyAt(prov, i).value = v}
    IN  IF hits = {} THEN None ELSE SetMin(hits)

\* KeyPool::mark_rate_limited
PoolMarkRateLimited(prov, v, duration) ==
    LET i == FindKey(prov, v)
    IN  IF i = None THEN key_pools ELSE SetRateLimited(prov, i, duration)

\* a caller of the pool cools a credential down by its value
MarkRateLimited(v, duration) ==
    /\ key_pools' = PoolMarkRateLimited(PoolProvider, v, duration)
    /\ disturbed' = Disturb
    /\ UNCHANGED <<now, sel, history, trackerVars, dispatchVars, streamVars>>

\* a holder of a key calls ApiKey::mark_rate_limited on it
KeyMarkRateLimited(i, duration) ==
    /\ i \in 1..PoolLen(PoolProvider)
    /\ key_pools' = SetRateLimited(PoolProvider, i, duration)
    /\ disturbed' = Disturb
    /\ UNCHANGED <<now, sel, history, trackerVars, dispatchVars, streamVars>>

\* ApiKey::clear_rate_limit
ClearRateLimit(i) ==
    /\ i \in 1..PoolLen(PoolProvider)
    /\ KeyAt(PoolProvider, i).rate_limited_until # None
    /\ key_pools' = [key_pools EXCEPT ![PoolProvider].keys[i].rate_limited_until = None]
    /\ disturbed' = Disturb
    /\ UNCHANGED <<now, sel, history, trackerVars, dispatchVars, streamVars>>

\* ApiKey::record_usage: Instant::now().elapsed() is the age of an instant
\* taken in the same expression, zero seconds
RecordUsage(i) ==
    /\ i \in 1..PoolLen(PoolProvider)
    /\ KeyAt(PoolProvider, i).request_count < MaxUsage
    /\ key_pools' = [key_pools EXCEPT ![PoolProvider].keys[i].request_count = @ + 1,
                                      ![PoolProvider].keys[i].last_used = 0]
    /\ disturbed' = Disturb
    /\ UNCHANGED <<now, sel, history, trackerVars, dispatchVars, streamVars>>

\* the deadlines that lie in (from, to]
Expiring(from, to) ==
    {p \in DOMAIN key_pools :
        \E i \in 1..PoolLen(p) :
            LET u == KeyAt(p, i).rate_limited_until
            IN  u # None /\ from < u /\ u <= to}

\* the clock advances
Tick(d) ==
    /\ now + d <= MaxTime
    /\ now' = now + d
    /\ disturbed' = IF Expiring(now, now + d) # {} THEN Disturb ELSE disturbed
    /\ UNCHANGED <<key_pools, sel, history, trackerVars, dispatchVars, streamVars>>

(***************************************************************************)
(* Strings are sequences of one-character strings; a HeaderMap is a         *)
(* function from header names to such strings.                              *)
(***************************************************************************)
DigitChars == <<"0", "1", "2", "3", "4", "5", "6", "7", "8", "9">>
IsAsciiDigit(c) == \E i \in 1..10 : DigitChars[i] = c
DigitValue(c) == (CHOOSE i \in 1..10 : DigitChars[i] = c) - 1

\* a byte HeaderValue::to_str rejects (not visible ASCII)
OpaqueByte == "\\xff"

\* HeaderValue::to_str succeeds
ToStrOk(v) == \A i \in 1..Len(v) : v[i] # OpaqueByte

\* the value of a string of digits (the model's header values have at most
\* nine digits, so that neither u32 nor u64 overflows)
RECURSIVE DecimalValue(_)
DecimalValue(s) ==
    IF s = <<>> THEN 0
    ELSE 10 * DecimalValue(SubSeq(s, 1, Len(s) - 1)) + DigitValue(s[Len(s)])

\* str::parse::<u32> and str::parse::<u64>: an optional '+', then digits only
ParseUnsigned(s) ==
    LET body == IF s # <<>> /\ s[1] = "+" THEN Tail(s) ELSE s
    IN  IF body # <<>> /\ \A i \in 1..Len(body) : IsAsciiDigit(body[i])
        THEN DecimalValue(body)
        ELSE None

\* char::is_whitespace, on the characters of the model
Whitespace == {" ", "\t", "\r", "\n"}

\* str::trim
RECURSIVE Trim(_)
Trim(s) ==
    IF s = <<>> THEN s
    ELSE IF s[1] \in Whitespace THEN Trim(Tail(s))
    ELSE IF s[Len(s)] \in Whitespace THEN Trim(SubSeq(s, 1, Len(s) - 1))
    ELSE s

EndsWith(s, suffix) ==
    /\ Len(s) >= Len(suffix)
    /\ SubSeq(s, Len(s) - Len(suffix) + 1, Len(s)) = suffix

\* what str::strip_suffix leaves when the suffix is there
DropSuffix(s, suffix) == SubSeq(s, 1, Len(s) - Len(suffix))

ContainsChar(s, c) == \E i \in 1..Len(s) : s[i] = c

\* Duration::from_secs_f64 panics on a negative number
Panic == -2

\* str::parse::<f64> followed by Duration::from_secs_f64, in ms: a decimal
\* numeral with an optional sign and an optional fraction, cut to the ms
ParseSecsF64(s) ==
    LET neg == s # <<>> /\ s[1] = "-"
        body == IF s # <<>> /\ s[1] \in {"+", "-"} THEN Tail(s) ELSE s
        dots == {i \in 1..Len(body) : body[i] = "."}
        dot == IF dots = {} THEN Len(body) + 1 ELSE CHOOSE i \in dots : TRUE
        whole == SubSeq(body, 1, dot - 1)
        frac == SubSeq(body, dot + 1, Len(body))
        frac3 == SubSeq(frac \o <<"0", "0", "0">>, 1, 3)
        wellFormed == /\ Cardinality(dots) <= 1
                      /\ whole \o frac # <<>>
                      /\ \A i \in 1..Len(whole) : IsAsciiDigit(whole[i])
                      /\ \A i \in 1..Len(frac) : IsAsciiDigit(frac[i])
        ms == 1000 * DecimalValue(whole) + DecimalValue(frac3)
    IN  IF ~wellFormed THEN None
        ELSE IF neg /\ ms > 0 THEN Panic
        ELSE ms

\* the loop of parse_duration_string's compound format: the seconds summed
\* over the characters from position i on, `cur` being current_num
RECURSIVE CompoundSecs(_, _, _)
CompoundSecs(s, i, cur) ==
    IF i > Len(s) THEN 0
    ELSE IF IsAsciiDigit(s[i]) THEN CompoundSecs(s, i + 1, Append(cur, s[i]))
    ELSE IF cur # <<>>
         THEN (CASE s[i] = "h" -> DecimalValue(cur) * 3600
                 [] s[i] = "m" -> DecimalValue(cur) * 60
                 [] s[i] = "s" -> DecimalValue(cur)
                 [] OTHER -> 0)
              + CompoundSecs(s, i + 1, <<>>)
         ELSE CompoundSecs(s, i + 1, cur)

\* Option::map over the model's Option
MapSome(opt, factor) == IF opt = None THEN None ELSE opt * factor

\* parse_duration_string, in ms
ParseDurationString(str) ==
    LET s == Trim(str)
        compound == IF ContainsChar(s, "h") \/ (ContainsChar(s, "m") /\ ContainsChar(s, "s"))
                    THEN CompoundSecs(s, 1, <<>>) ELSE 0
    IN  IF EndsWith(s, <<"m", "s">>) THEN ParseUnsigned(DropSuffix(s, <<"m", "s">>))
        ELSE IF compound > 0 THEN 1000 * compound
        ELSE IF EndsWith(s, <<"s">>) THEN ParseSecsF64(DropSuffix(s, <<"s">>))
        ELSE IF EndsWith(s, <<"m">>) THEN MapSome(ParseUnsigned(DropSuffix(s, <<"m">>)), 60000)
        ELSE IF EndsWith(s, <<"h">>) THEN MapSome(ParseUnsigned(DropSuffix(s, <<"h">>)), 3600000)
        ELSE None

\* no call of parse_duration_string yet
NotParsed == [s |-> <<>>, result |-> None, called |-> FALSE]

\* the characters of the strings parse_duration_string is called with
DurationChars == {"0", "1", "3", "h", "m", "s", ".", " "}
\* the duration strings of the function's unit test
TestedDurations ==
    {<<"3", "0", "s">>, <<"5", "m">>, <<"1", "h">>, <<"1", "m", "3", "0", "s">>,
     <<"5", "0", "0", "m", "s">>}
\* the strings parse_duration_string is called with
DurationStrings ==
    TestedDurations
        \cup UNION {[1..n -> DurationChars] : n \in 0..MaxDurationLen}

\* a caller calls parse_duration_string
CallParseDurationString ==
    /\ ~parse_call.called
    /\ \E str \in DurationStrings :
          parse_call' = [s |-> str, result |-> ParseDurationString(str), called |-> TRUE]
    /\ UNCHANGED <<now, poolVars, trackerVars, dispatchVars, script, acc, fed, message, recv,
                   routing, verdict>>

(***************************************************************************)
(* RateLimitTracker                                                         *)
(***************************************************************************)
\* ProviderRateLimit::default
DefaultRateLimit ==
    [requests_remaining |-> None, tokens_remaining |-> None,
     reset_at |-> None, retry_after |-> None]

\* Option<&str>::None for a header name
NoName == ""
RemainingHeader == "x-ratelimit-remaining-requests"
ResetHeader == "x-ratelimit-reset-requests"
RetryAfterHeader == "retry-after"

\* the default 60 seconds of update_from_rate_limit_error, in ms
DefaultRetryAfter == 60000

\* Option<&str>::unwrap_or
NameOr(name, default) == IF name = NoName THEN default ELSE name

\* HeaderMap::get followed by to_str: the header's text, or no text
HasText(headers, name) == name \in DOMAIN headers /\ ToStrOk(headers[name])

\* HashMap::entry(provider).or_default
EntryOrDefault(prov) == IF prov \in DOMAIN providers THEN providers[prov] ELSE DefaultRateLimit

\* a plausible slip: the remaining requests header is not recorded
StoreRemainingSkipped(info, headers, remaining_header) == info

\* update_from_response: the remaining requests header
StoreRemaining(info, headers, remaining_header) ==
    LET key == NameOr(remaining_header, RemainingHeader)
    IN  IF HasText(headers, key) /\ ParseUnsigned(headers[key]) # None
        THEN [info EXCEPT !.requests_remaining = ParseUnsigned(headers[key])]
        ELSE info

\* a plausible slip: the deadline is written whatever the header says
StoreResetAlways(info, headers, reset_header) == [info EXCEPT !.reset_at = now]

\* update_from_response: the reset header, as seconds or as a duration string
StoreReset(info, headers, reset_header) ==
    LET key == NameOr(reset_header, ResetHeader)
    IN  IF ~HasText(headers, key) THEN info
        ELSE IF ParseUnsigned(headers[key]) # None
        THEN [info EXCEPT !.reset_at = now + 1000 * ParseUnsigned(headers[key])]
        ELSE IF ParseDurationString(headers[key]) # None
        THEN [info EXCEPT !.reset_at = now + ParseDurationString(headers[key])]
        ELSE info

\* RateLimitTracker::update_from_response: the map it leaves
ProvidersAfterResponse(prov, headers, remaining_header, reset_header) ==
    (prov :> StoreReset(StoreRemaining(EntryOrDefault(prov), headers, remaining_header),
                        headers, reset_header))
        @@ providers

\* a plausible slip: the header is not looked at
RetryDurationDefaultOnly(headers, retry_after_header) == DefaultRetryAfter

\* update_from_rate_limit_error: the duration it chooses and returns
RetryDuration(headers, retry_after_header) ==
    LET key == NameOr(retry_after_header, RetryAfterHeader)
        parsed == IF ~HasText(headers, key) THEN None
                  ELSE IF ParseUnsigned(headers[key]) # None
                  THEN 1000 * ParseUnsigned(headers[key])
                  ELSE ParseDurationString(headers[key])
    IN  IF parsed = None THEN DefaultRetryAfter ELSE parsed

\* a plausible slip: the retry-after is stored without its deadline
StoreRetryAfterOnly(info, duration) == [info EXCEPT !.retry_after = duration]

\* update_from_rate_limit_error: the two fields it stores
StoreRetryAfter(info, duration) ==
    [info EXCEPT !.retry_after = duration, !.reset_at = now + duration]

\* RateLimitTracker::update_from_rate_limit_error: the map it leaves
ProvidersAfterRateLimitError(prov, headers, retry_after_header) ==
    (prov :> StoreRetryAfter(EntryOrDefault(prov), RetryDuration(headers, retry_after_header)))
        @@ providers

\* a plausible slip: the check of the exhausted quota is lost
ShouldWaitRetryAfterOnly(prov) ==
    IF prov \notin DOMAIN providers THEN None
    ELSE LET info == providers[prov]
         IN  IF info.retry_after # None
             THEN IF info.reset_at # None
                  THEN IF now < info.reset_at THEN info.reset_at - now ELSE None
                  ELSE info.retry_after
             ELSE None

\* a plausible slip: the stored retry-after is returned whatever the deadline
ShouldWaitRawRetryAfter(prov) ==
    IF prov \notin DOMAIN providers THEN None
    ELSE LET info == providers[prov]
         IN  IF info.requests_remaining = 0 /\ info.reset_at # None /\ now < info.reset_at
             THEN info.reset_at - now
             ELSE info.retry_after

\* RateLimitTracker::should_wait
ShouldWait(prov) ==
    IF prov \notin DOMAIN providers THEN None
    ELSE LET info == providers[prov]
         IN  IF info.requests_remaining = 0 /\ info.reset_at # None /\ now < info.reset_at
             THEN info.reset_at - now
             ELSE IF info.retry_after # None
             THEN IF info.reset_at # None
                  THEN IF now < info.reset_at THEN info.reset_at - now ELSE None
                  ELSE info.retry_after
             ELSE None

\* a caller of the tracker calls update_from_response
UpdateFromResponse(prov, headers) ==
    /\ providers' = ProvidersAfterResponse(prov, headers, NoName, NoName)
    /\ last_call' = [op |-> "update_from_response", provider |-> prov,
                     headers |-> headers, ret |-> None, at |-> now]
    /\ UNCHANGED <<paired_reset, now, poolVars, dispatchVars, streamVars>>

\* a caller of the tracker calls update_from_rate_limit_error
UpdateFromRateLimitError(prov, headers) ==
    /\ RetryDuration(headers, NoName) # Panic
    /\ providers' = ProvidersAfterRateLimitError(prov, headers, NoName)
    /\ paired_reset' = [paired_reset EXCEPT ![prov] = now + RetryDuration(headers, NoName)]
    /\ last_call' = [op |-> "update_from_rate_limit_error", provider |-> prov,
                     headers |-> headers, ret |-> RetryDuration(headers, NoName), at |-> now]
    /\ UNCHANGED <<now, poolVars, dispatchVars, streamVars>>

\* a caller of the tracker calls should_wait
CallShouldWait(prov) ==
    /\ last_call' = [op |-> "should_wait", provider |-> prov,
                     headers |-> <<>>, ret |-> ShouldWait(prov), at |-> now]
    /\ UNCHANGED <<providers, paired_reset, now, poolVars, dispatchVars, streamVars>>

\* RateLimitTracker::clear
Clear(prov) ==
    /\ prov \in DOMAIN providers
    /\ providers' = [p \in DOMAIN providers \ {prov} |-> providers[p]]
    /\ paired_reset' = [paired_reset EXCEPT ![prov] = None]
    /\ last_call' = [op |-> "clear", provider |-> prov,
                     headers |-> <<>>, ret |-> None, at |-> now]
    /\ UNCHANGED <<now, poolVars, dispatchVars, streamVars>>

(***************************************************************************)
(* RateLimitTracker::is_rate_limit_error                                    *)
(***************************************************************************)
UpperChars ==
    <<"A", "B", "C", "D", "E", "F", "G", "H", "I", "J", "K", "L", "M",
      "N", "O", "P", "Q", "R", "S", "T", "U", "V", "W", "X", "Y", "Z">>
LowerChars ==
    <<"a", "b", "c", "d", "e", "f", "g", "h", "i", "j", "k", "l", "m",
      "n", "o", "p", "q", "r", "s", "t", "u", "v", "w", "x", "y", "z">>

\* a plausible slip: the body is compared as it is
ToLowercaseSkipped(s) == s

\* str::to_lowercase, on ASCII text
ToLowercase(s) ==
    [i \in 1..Len(s) |->
        IF \E k \in 1..Len(UpperChars) : UpperChars[k] = s[i]
        THEN LowerChars[CHOOSE k \in 1..Len(UpperChars) : UpperChars[k] = s[i]]
        ELSE s[i]]

\* str::contains with a string pattern
Contains(s, pattern) ==
    \E i \in 1..(Len(s) - Len(pattern) + 1) : SubSeq(s, i, i + Len(pattern) - 1) = pattern

MarkerRateLimit == <<"r", "a", "t", "e", " ", "l", "i", "m", "i", "t">>
MarkerRateUnderscoreLimit == <<"r", "a", "t", "e", "_", "l", "i", "m", "i", "t">>
MarkerTooManyRequests ==
    <<"t", "o", "o", " ", "m", "a", "n", "y", " ", "r", "e", "q", "u", "e", "s", "t", "s">>
MarkerQuotaExceeded ==
    <<"q", "u", "o", "t", "a", " ", "e", "x", "c", "e", "e", "d", "e", "d">>

\* RateLimitTracker::is_rate_limit_error
IsRateLimitError(status, body) ==
    \/ status = 429
    \/ LET lower_body == ToLowercase(body)
       IN  \/ Contains(lower_body, MarkerRateLimit)
           \/ Contains(lower_body, MarkerRateUnderscoreLimit)
           \/ Contains(lower_body, MarkerTooManyRequests)
           \/ Contains(lower_body, MarkerQuotaExceeded)

\* is_rate_limit_error has not been called
NoVerdict == [status |-> 0, body |-> <<>>, result |-> FALSE, called |-> FALSE]

\* the statuses and the bodies is_rate_limit_error is called with: the
\* markers and texts that are nearly a marker, in lower case, in upper case
\* and in mixed case, alone and inside a longer text
SignalStatuses == {200, 400, 403, 428, 429, 430, 500}
ToUppercase(s) ==
    [i \in 1..Len(s) |->
        IF \E k \in 1..Len(LowerChars) : LowerChars[k] = s[i]
        THEN UpperChars[CHOOSE k \in 1..Len(LowerChars) : LowerChars[k] = s[i]]
        ELSE s[i]]
MixedCase(s) == [i \in 1..Len(s) |-> IF i % 2 = 1 THEN ToUppercase(s)[i] ELSE s[i]]
NearMarkers ==
    {<<>>, <<"s", "u", "c", "c", "e", "s", "s">>, <<"i", "n", "t", "e", "r", "n", "a", "l", " ", "e", "r", "r", "o", "r">>,
     <<"r", "a", "t", "e", "l", "i", "m", "i", "t">>, <<"r", "a", "t", "e", "-", "l", "i", "m", "i", "t">>,
     <<"t", "o", "o", " ", "m", "a", "n", "y", " ", "r", "e", "q", "u", "e", "s", "t">>, <<"q", "u", "o", "t", "a", " ", "e", "x", "c", "e", "e", "d">>,
     <<"l", "i", "m", "i", "t", " ", "r", "a", "t", "e">>}
SignalTexts ==
    LET lower == {MarkerRateLimit, MarkerRateUnderscoreLimit, MarkerTooManyRequests,
                  MarkerQuotaExceeded} \cup NearMarkers
    IN  lower \cup {ToUppercase(x) : x \in lower} \cup {MixedCase(x) : x \in lower}
            \cup {<<"T", "o", "o", " ", "M", "a", "n", "y", " ", "R", "e", "q", "u", "e", "s", "t", "s">>}
SignalBodies ==
    {before \o x \o after : before \in {<<>>, <<"x">>}, x \in SignalTexts,
                             after \in {<<>>, <<"!">>}}

\* a caller calls is_rate_limit_error
CallIsRateLimitError ==
    /\ ~verdict.called
    /\ \E status \in SignalStatuses, body \in SignalBodies :
          verdict' = [status |-> status, body |-> body,
                      result |-> IsRateLimitError(status, body), called |-> TRUE]
    /\ UNCHANGED <<now, poolVars, trackerVars, dispatchVars, parse_call, script, acc, fed, message, recv,
                   routing>>

(***************************************************************************)
(* LlmaoError and the results of the calls                                  *)
(***************************************************************************)
\* Err(e): the variant of LlmaoError, and the fields of RateLimited
Err(kind, prov) == [ok |-> FALSE, kind |-> kind, provider |-> prov, retry_after |-> None]

\* Ok(response)
OkResponse == [ok |-> TRUE, kind |-> "Ok", provider |-> "", retry_after |-> None]

\* no result yet
NoResult == [ok |-> FALSE, kind |-> "none", provider |-> "", retry_after |-> None]

\* From<reqwest::Error> for LlmaoError
FromReqwest(e) ==
    IF e = "timeout" THEN Err("Timeout", "")
    ELSE IF e = "connect" THEN Err("Request", "")
    ELSE IF e = "decode" THEN Err("Response", "")
    ELSE Err("Request", "")

(***************************************************************************)
(* HttpClient::post_with_retry                                              *)
(***************************************************************************)
\* backoff.initial_interval, in ms
InitialInterval == 500

\* status.is_success()
IsSuccess(status) == status \in 200..299

\* the wait before the next try: initial_interval * 2^retries
BackoffWait(retries) == InitialInterval * 2^retries

\* a plausible slip: one more try than max_retries allows
RetriesExceededLate(retries, max_retries) == retries > max_retries + 1

\* the test that ends the retry loop
RetriesExceeded(retries, max_retries) == retries > max_retries

\* a response: its status, its body, the reqwest error reading the body fails
\* with ("" for none), and whether the body deserializes
NoResponse == [status |-> 0, body |-> <<>>, read_error |-> "", parses |-> TRUE]

\* no post_with_retry call in progress; `guard` says that the frame holds a
\* guard of the tracker's RwLock
IdlePost ==
    [pc |-> "idle", provider |-> "", api_key |-> None, retries |-> 0, max_retries |-> 0,
     wake |-> 0, after |-> "", resp |-> NoResponse, signal |-> FALSE, ret |-> NoResult,
     guard |-> FALSE]

\* what a call has done so far: the HTTP requests it issued, and its calls
\* of post_with_retry
\* requests: the requests sent; sends: the calls of post_with_retry; cooled:
\* the credentials the call handed to mark_key_rate_limited
NoObservation == [requests |-> 0, sends |-> 0, cooled |-> {}]

\* the frame at the entry of the retry loop
PostFrame(prov, api_key, max_retries) ==
    [IdlePost EXCEPT !.pc = "check_wait", !.provider = prov, !.api_key = api_key,
                     !.max_retries = max_retries]

\* the frame at `return r`
PostReturn(f, r) == [f EXCEPT !.pc = "done", !.ret = r, !.resp = NoResponse]

\* a plausible slip: the read guard of should_wait lives on into the sleep
PostSleepFrameKeepsGuard(f, wait, after) ==
    [f EXCEPT !.pc = "sleep", !.wake = now + wait, !.after = after, !.resp = NoResponse,
              !.guard = TRUE]

\* the frame at `tokio::time::sleep(wait)`, to go on at `after`: should_wait
\* has returned an owned Duration and dropped its guard
PostSleepFrame(f, wait, after) ==
    [f EXCEPT !.pc = "sleep", !.wake = now + wait, !.after = after, !.resp = NoResponse,
              !.guard = FALSE]

\* RwLock::write of the tracker is granted to thread t: no other frame holds
\* a guard
TrackerLockFree(t) == \A u \in DOMAIN http \ {t} : ~http[u].guard

\* a plausible slip: the retry goes straight to the request
AfterRateLimitSignalSkipsCheck(f) ==
    LET retries == f.retries + 1
        g == [f EXCEPT !.retries = retries, !.signal = TRUE]
    IN  IF RetriesExceeded(retries, f.max_retries)
        THEN PostReturn(g, Err("RateLimited", f.provider))
        ELSE PostSleepFrame(g, BackoffWait(retries), "send")

\* the frame after `retries += 1` on a rate limit signal
AfterRateLimitSignal(f) ==
    LET retries == f.retries + 1
        g == [f EXCEPT !.retries = retries, !.signal = TRUE]
    IN  IF RetriesExceeded(retries, f.max_retries)
        THEN PostReturn(g, Err("RateLimited", f.provider))
        ELSE PostSleepFrame(g, BackoffWait(retries), "check_wait")

\* the frame after `retries += 1` on a transport error e
AfterTransportError(f, e) ==
    LET retries == f.retries + 1
        g == [f EXCEPT !.retries = retries, !.signal = FALSE]
    IN  IF RetriesExceeded(retries, f.max_retries) THEN PostReturn(g, FromReqwest(e))
        ELSE IF e \in {"connect", "timeout"}
        THEN PostSleepFrame(g, BackoffWait(retries), "check_wait")
        ELSE PostReturn(g, FromReqwest(e))

\* a plausible slip: only 401 is an authentication failure
IsAuthStatusUnauthorizedOnly(status) == status = 401

\* status == UNAUTHORIZED || status == FORBIDDEN
IsAuthStatus(status) == status \in {401, 403}

\* the frame after the response f.resp: the body is read and classified
AfterBody(f) ==
    LET r == f.resp
        response_body == IF r.read_error = "" THEN r.body ELSE <<>>
        g == [f EXCEPT !.signal = FALSE]
    IN  IF IsSuccess(r.status)
        THEN IF r.read_error # "" THEN PostReturn(g, FromReqwest(r.read_error))
             ELSE IF r.parses THEN PostReturn(g, OkResponse)
             ELSE PostReturn(g, Err("Response", ""))
        ELSE IF IsRateLimitError(r.status, response_body) THEN AfterRateLimitSignal(f)
        ELSE IF IsAuthStatus(r.status) THEN PostReturn(g, Err("Auth", ""))
        ELSE PostReturn(g, Err("Request", ""))

\* the loop's head: should_wait, and whether to sleep
PostCheckWait(t) ==
    /\ http[t].pc = "check_wait"
    /\ LET wait == ShouldWait(http[t].provider)
       IN  http' = [http EXCEPT ![t] =
                        IF wait # None THEN PostSleepFrame(@, wait, "send")
                        ELSE [@ EXCEPT !.pc = "send"]]
    /\ UNCHANGED <<now, poolVars, trackerVars, provider_registry, comp, obs, streamVars>>

\* tokio::time::sleep returns: the clock has reached the wake time
PostSleep(t) ==
    /\ http[t].pc = "sleep"
    /\ now' = IF now < http[t].wake THEN http[t].wake ELSE now
    /\ disturbed' = IF Expiring(now, now') # {} THEN Disturb ELSE disturbed
    /\ http' = [http EXCEPT ![t] = [@ EXCEPT !.pc = http[t].after]]
    /\ UNCHANGED <<key_pools, sel, history, trackerVars, provider_registry, comp, obs, streamVars>>

\* the request is sent and a response arrives: update_from_response, then
\* the body is read and the response is classified
PostResponse(t, resp, headers) ==
    /\ http[t].pc = "send"
    /\ TrackerLockFree(t)
    /\ providers' = ProvidersAfterResponse(http[t].provider, headers, NoName, NoName)
    /\ http' = [http EXCEPT ![t] = AfterBody([@ EXCEPT !.resp = resp])]
    /\ obs' = [obs EXCEPT ![t] = [@ EXCEPT !.requests = @ + 1]]
    /\ UNCHANGED <<now, poolVars, paired_reset, last_call, provider_registry, comp, streamVars>>

\* the request is sent and fails with the reqwest error e
PostTransportError(t, e) ==
    /\ http[t].pc = "send"
    /\ http' = [http EXCEPT ![t] = AfterTransportError(@, e)]
    /\ obs' = [obs EXCEPT ![t] = [@ EXCEPT !.requests = @ + 1]]
    /\ UNCHANGED <<now, poolVars, trackerVars, provider_registry, comp, streamVars>>

\* a caller other than completion calls post_with_retry
CallPostWithRetry(t, prov, api_key, max_retries) ==
    /\ now <= MaxTime
    /\ http[t].pc = "idle"
    /\ comp[t].pc = "idle"
    /\ http' = [http EXCEPT ![t] = PostFrame(prov, api_key, max_retries)]
    /\ obs' = [obs EXCEPT ![t] = [NoObservation EXCEPT !.sends = 1]]
    /\ UNCHANGED <<now, poolVars, trackerVars, provider_registry, comp, streamVars>>

\* that caller takes the result
TakePostResult(t) ==
    /\ http[t].pc = "done"
    /\ comp[t].pc = "idle"
    /\ http' = [http EXCEPT ![t] = IdlePost]
    /\ UNCHANGED <<now, poolVars, trackerVars, provider_registry, comp, obs, streamVars>>

(***************************************************************************)
(* HttpClient::post_stream                                                  *)
(***************************************************************************)
\* the frame at the one should_wait of post_stream
StreamFrame(prov, api_key) ==
    [IdlePost EXCEPT !.pc = "stream_check_wait", !.provider = prov, !.api_key = api_key]

\* the frame after the response f.resp: a success hands the byte stream
\* back, whose body is read later; another status is classified by its body
AfterStreamStatus(f) ==
    LET r == f.resp
        body == IF r.read_error = "" THEN r.body ELSE <<>>
    IN  IF IsSuccess(r.status) THEN PostReturn(f, OkResponse)
        ELSE IF IsRateLimitError(r.status, body)
        THEN PostReturn([f EXCEPT !.signal = TRUE], Err("RateLimited", f.provider))
        ELSE PostReturn(f, Err("Request", ""))

\* a caller calls post_stream
CallPostStream(t, prov, api_key) ==
    /\ now <= MaxTime
    /\ http[t].pc = "idle"
    /\ comp[t].pc = "idle"
    /\ http' = [http EXCEPT ![t] = StreamFrame(prov, api_key)]
    /\ obs' = [obs EXCEPT ![t] = [NoObservation EXCEPT !.sends = 1]]
    /\ UNCHANGED <<now, poolVars, trackerVars, provider_registry, comp, streamVars>>

\* should_wait, and whether to sleep before the request
StreamCheckWait(t) ==
    /\ http[t].pc = "stream_check_wait"
    /\ LET wait == ShouldWait(http[t].provider)
       IN  http' = [http EXCEPT ![t] =
                        IF wait # None THEN PostSleepFrame(@, wait, "stream_send")
                        ELSE [@ EXCEPT !.pc = "stream_send"]]
    /\ UNCHANGED <<now, poolVars, trackerVars, provider_registry, comp, obs, streamVars>>

\* the request is sent and a response arrives: update_from_response, then
\* the status is looked at
StreamResponse(t, resp, headers) ==
    /\ http[t].pc = "stream_send"
    /\ TrackerLockFree(t)
    /\ providers' = ProvidersAfterResponse(http[t].provider, headers, NoName, NoName)
    /\ http' = [http EXCEPT ![t] = AfterStreamStatus([@ EXCEPT !.resp = resp])]
    /\ obs' = [obs EXCEPT ![t] = [@ EXCEPT !.requests = @ + 1]]
    /\ UNCHANGED <<now, poolVars, paired_reset, last_call, provider_registry, comp, streamVars>>

\* the request is sent and fails with the reqwest error e: `.send().await?`
StreamTransportError(t, e) ==
    /\ http[t].pc = "stream_send"
    /\ http' = [http EXCEPT ![t] = PostReturn(@, FromReqwest(e))]
    /\ obs' = [obs EXCEPT ![t] = [@ EXCEPT !.requests = @ + 1]]
    /\ UNCHANGED <<now, poolVars, trackerVars, provider_registry, comp, streamVars>>

(***************************************************************************)
(* StreamAccumulator: an Option is the empty sequence (None) or a sequence  *)
(* of one value (Some); a String that is appended to is a sequence of       *)
(* characters                                                               *)
(***************************************************************************)
NoneOf == <<>>
Some(v) == <<v>>
Unwrap(opt) == opt[1]

\* a plausible slip: the new text is put in front
PushStrFront(s, t) == t \o s

\* a plausible slip: the new text replaces the old
PushStrReplace(s, t) == t

\* String::push_str
PushStr(s, t) == s \o t

\* a plausible slip: the latest value wins
OrLatest(old, new) == IF new # NoneOf THEN new ELSE old

\* `if old.is_none() { old = new }`
OrFirst(old, new) == IF old = NoneOf THEN new ELSE old

\* a plausible slip: a chunk that carries none clears the value
LatestAssigned(old, new) == new

\* `if new.is_some() { old = new }`
LatestSome(old, new) == IF new # NoneOf THEN new ELSE old

\* StreamAccumulator::default
NewAccumulator ==
    [content |-> <<>>, tool_calls |-> <<>>, role |-> NoneOf, finish_reason |-> NoneOf,
     id |-> NoneOf, model |-> NoneOf, created |-> NoneOf, usage |-> NoneOf]

\* ToolCallAccumulator::default
DefaultToolCall == [id |-> "", call_type |-> "", name |-> <<>>, arguments |-> <<>>]

\* a plausible slip: one slot more than the index needs
EnsureSlotsInclusive(tool_calls, idx) ==
    IF Len(tool_calls) <= idx + 1
    THEN tool_calls \o [k \in 1..(idx + 2 - Len(tool_calls)) |-> DefaultToolCall]
    ELSE tool_calls

\* `while self.tool_calls.len() <= idx { push(default) }`
EnsureSlots(tool_calls, idx) ==
    IF Len(tool_calls) <= idx
    THEN tool_calls \o [k \in 1..(idx + 1 - Len(tool_calls)) |-> DefaultToolCall]
    ELSE tool_calls

\* the body of the loop over the tool call deltas of a choice
ApplyDelta(tool_calls, tc_delta) ==
    LET idx == tc_delta.index
        slots == EnsureSlots(tool_calls, idx)
        tc == slots[idx + 1]
        func == tc_delta.function
        named == func # NoneOf /\ Unwrap(func).name # NoneOf
        argued == func # NoneOf /\ Unwrap(func).arguments # NoneOf
    IN  [slots EXCEPT ![idx + 1] =
            [id |-> IF tc_delta.id # NoneOf THEN Unwrap(tc_delta.id) ELSE tc.id,
             call_type |-> IF tc_delta.call_type # NoneOf THEN Unwrap(tc_delta.call_type)
                           ELSE tc.call_type,
             name |-> IF named THEN PushStr(tc.name, Unwrap(Unwrap(func).name)) ELSE tc.name,
             arguments |-> IF argued THEN PushStr(tc.arguments, Unwrap(Unwrap(func).arguments))
                           ELSE tc.arguments]]

\* `for tc_delta in tool_calls`
RECURSIVE ApplyDeltas(_, _)
ApplyDeltas(tool_calls, deltas) ==
    IF deltas = <<>> THEN tool_calls
    ELSE ApplyDeltas(ApplyDelta(tool_calls, Head(deltas)), Tail(deltas))

\* the body of the loop over the choices of a chunk
ApplyChoice(a, choice) ==
    LET delta == choice.delta
    IN  [a EXCEPT
            !.role = OrFirst(@, delta.role),
            !.content = IF delta.content # NoneOf THEN PushStr(@, Unwrap(delta.content)) ELSE @,
            !.tool_calls = IF delta.tool_calls # NoneOf
                           THEN ApplyDeltas(@, Unwrap(delta.tool_calls)) ELSE @,
            !.finish_reason = LatestSome(@, choice.finish_reason)]

\* `for choice in &chunk.choices`
RECURSIVE ApplyChoices(_, _)
ApplyChoices(a, choices) ==
    IF choices = <<>> THEN a
    ELSE ApplyChoices(ApplyChoice(a, Head(choices)), Tail(choices))

\* StreamAccumulator::process_chunk: the accumulator it leaves
AfterChunk(a, chunk) ==
    LET first == a.id = NoneOf
        b == [a EXCEPT !.id = OrFirst(@, Some(chunk.id)),
                       !.model = IF first THEN Some(chunk.model) ELSE @,
                       !.created = IF first THEN Some(chunk.created) ELSE @,
                       !.usage = LatestSome(@, chunk.usage)]
    IN  ApplyChoices(b, chunk.choices)

\* the role of a message whose stream carried none
DefaultRole == "assistant"

\* a plausible slip: an empty list instead of no list
ToolCallsAlways(tool_calls) ==
    Some([i \in 1..Len(tool_calls) |->
             [id |-> tool_calls[i].id, call_type |-> tool_calls[i].call_type,
              function |-> [name |-> tool_calls[i].name,
                            arguments |-> tool_calls[i].arguments]]])

\* into_message: the tool calls of the message
ToolCallsOf(tool_calls) ==
    IF tool_calls = <<>> THEN NoneOf
    ELSE Some([i \in 1..Len(tool_calls) |->
                  [id |-> tool_calls[i].id, call_type |-> tool_calls[i].call_type,
                   function |-> [name |-> tool_calls[i].name,
                                 arguments |-> tool_calls[i].arguments]]])

\* StreamAccumulator::into_message: the Message it returns
MessageOf(a) ==
    [role |-> IF a.role # NoneOf THEN Unwrap(a.role) ELSE DefaultRole,
     content |-> [variant |-> "Text", text |-> a.content],
     name |-> NoneOf,
     tool_calls |-> ToolCallsOf(a.tool_calls),
     tool_call_id |-> NoneOf]

\* the owner of the accumulator calls process_chunk
ProcessChunk(chunk) ==
    /\ Len(fed) < MaxChunks
    /\ message = NoneOf
    /\ acc' = AfterChunk(acc, chunk)
    /\ fed' = Append(fed, chunk)
    /\ UNCHANGED <<now, poolVars, trackerVars, dispatchVars, parse_call, script, message, recv, routing, verdict>>

\* the owner of the accumulator calls into_message, which consumes it
IntoMessage ==
    /\ message = NoneOf
    /\ message' = Some(MessageOf(acc))
    /\ UNCHANGED <<now, poolVars, trackerVars, dispatchVars, parse_call, script, acc, fed, recv, routing, verdict>>

(***************************************************************************)
(* parse_sse_line                                                           *)
(***************************************************************************)
\* str::starts_with
StartsWith(s, prefix) ==
    /\ Len(s) >= Len(prefix)
    /\ SubSeq(s, 1, Len(prefix)) = prefix

\* str::strip_prefix
StripPrefix(s, prefix) ==
    IF StartsWith(s, prefix) THEN Some(SubSeq(s, Len(prefix) + 1, Len(s))) ELSE NoneOf

DataPrefix == <<"d", "a", "t", "a", ":", " ">>
DoneSignal == <<"[", "D", "O", "N", "E", "]">>

\* the JSON texts of the model: "{d}", with d a digit, is the text of the
\* chunk whose id is d; every other text is no StreamChunk
IsChunkJson(data) ==
    Len(data) = 3 /\ data[1] = "{" /\ IsAsciiDigit(data[2]) /\ data[3] = "}"

\* serde_json::from_str::<StreamChunk>
FromStr(data) ==
    IF IsChunkJson(data)
    THEN Some([id |-> data[2], object |-> "chat.completion.chunk", created |-> 12345,
               model |-> "gpt-4", choices |-> <<>>, usage |-> NoneOf])
    ELSE NoneOf

\* LlmaoError::Stream(format!("Failed to parse SSE chunk: {}. Data: {}", e, data))
StreamError(data) ==
    [kind |-> "Stream", message |-> <<"Failed to parse SSE chunk: ", "e", ". Data: ">> \o data]

\* Ok(None), Ok(Some(chunk)) and Err(e) of parse_sse_line
Parsed(chunk) == [ok |-> TRUE, chunk |-> chunk, error |-> NoneOf]
ParseFailed(e) == [ok |-> FALSE, chunk |-> NoneOf, error |-> Some(e)]

IsDoneNever(data) == FALSE

\* data == "[DONE]"
IsDone(data) == data = DoneSignal

\* parse_sse_line
ParseSseLine(raw) ==
    LET line == Trim(raw)
        stripped == StripPrefix(line, DataPrefix)
    IN  IF line = <<>> \/ StartsWith(line, <<":">>) THEN Parsed(NoneOf)
        ELSE IF stripped # NoneOf
        THEN LET data == Trim(Unwrap(stripped))
             IN  IF IsDone(data) THEN Parsed(NoneOf)
                 ELSE IF FromStr(data) = NoneOf THEN ParseFailed(StreamError(data))
                 ELSE Parsed(FromStr(data))
        ELSE Parsed(NoneOf)

(***************************************************************************)
(* LlmClient::completion_stream, from the stream post_stream has returned   *)
(***************************************************************************)
\* The body of a response is made of lines drawn from a small set, and
\* arrives cut into pieces of any length.
DataOne == DataPrefix \o <<"{", "1", "}">>
DataTwo == DataPrefix \o <<"{", "2", "}", "\r">>
DataBad == DataPrefix \o <<"{", "x">>
DataDone == DataPrefix \o DoneSignal
DataEmpty == DataPrefix
DataNoSpace == <<"d", "a", "t", "a", ":", "{", "1", "}">>

\* a blank line and the blank line of a CRLF body, a comment, the fields
\* event, id and retry, the done line, two data lines with a chunk, a data
\* line with a text that is no chunk, a data line with nothing after the
\* prefix, and a data field written without the space
SseLines ==
    {<<>>, <<"\r">>, <<":", "c">>,
     <<"e", "v", "e", "n", "t", ":", "m">>, <<"i", "d", ":", "1">>,
     <<"r", "e", "t", "r", "y", ":", "1">>,
     DataDone, DataOne, DataTwo, DataBad, DataEmpty, DataNoSpace}

\* the lines, each ended by a line feed
RECURSIVE Terminated(_)
Terminated(lines) ==
    IF lines = <<>> THEN <<>> ELSE lines[1] \o <<"\n">> \o Terminated(Tail(lines))

\* a body of at most MaxLines lines, with or without the line feed of the
\* last line
Bodies ==
    UNION {{Terminated(ls) : ls \in [1..k -> SseLines]} : k \in 0..MaxLines}
        \cup UNION {{Terminated(SubSeq(ls, 1, k - 1)) \o ls[k] : ls \in [1..k -> SseLines]}
                       : k \in 1..MaxLines}

\* no receive loop is running
IdleReceive ==
    [pc |-> "idle", body |-> <<>>, pending |-> <<>>, buffer |-> <<>>, chunks |-> <<>>,
     calls |-> <<>>, ret |-> [ok |-> FALSE, kind |-> "none", message |-> <<>>],
     returned |-> <<>>]

\* Ok(chunks) and Err(e) of completion_stream
ReceiveOk(f) ==
    [f EXCEPT !.pc = "done", !.ret = [ok |-> TRUE, kind |-> "Ok", message |-> <<>>],
              !.returned = f.chunks]
ReceiveErr(f, kind, text) ==
    [f EXCEPT !.pc = "done", !.ret = [ok |-> FALSE, kind |-> kind, message |-> text],
              !.returned = <<>>]

\* the position of the first c in s (str::find), where there is one
Find(s, c) == CHOOSE i \in 1..Len(s) : s[i] = c /\ \A j \in 1..(i - 1) : s[j] # c

\* the frame after `parse_sse_line(&line)?`: the call is noted, an error
\* goes to the caller, a chunk is pushed
AfterLine(f, line) ==
    LET res == ParseSseLine(line)
        g == [f EXCEPT !.calls = Append(@, [line |-> line, res |-> res])]
    IN  IF ~res.ok THEN ReceiveErr(g, Unwrap(res.error).kind, Unwrap(res.error).message)
        ELSE IF res.chunk # NoneOf THEN [g EXCEPT !.chunks = Append(@, Unwrap(res.chunk))]
        ELSE g

\* while let Some(newline_pos) = buffer.find('\n') { ... }
RECURSIVE DrainLines(_)
DrainLines(f) ==
    IF f.pc = "done" \/ ~ContainsChar(f.buffer, "\n") THEN f
    ELSE LET newline_pos == Find(f.buffer, "\n")
             line == SubSeq(f.buffer, 1, newline_pos - 1)
             rest == SubSeq(f.buffer, newline_pos + 1, Len(f.buffer))
         IN  DrainLines(AfterLine([f EXCEPT !.buffer = rest], line))

\* the rest of the buffer, once the stream has ended
AfterLastLine(f) ==
    IF Trim(f.buffer) # <<>>
    THEN LET g == AfterLine(f, f.buffer)
         IN  IF g.pc = "done" THEN g ELSE ReceiveOk(g)
    ELSE ReceiveOk(f)

\* post_stream has returned the stream of a response, whose body is one
\* of the bodies of the model
StartReceive ==
    /\ recv.pc = "idle"
    /\ \E body \in Bodies :
          recv' = [IdleReceive EXCEPT !.pc = "next", !.body = body, !.pending = body]
    /\ UNCHANGED <<now, poolVars, trackerVars, dispatchVars, parse_call, script, acc, fed, message, routing, verdict>>

\* stream.next() yields the next bytes of the body, one or more
ReceiveBytes ==
    /\ recv.pc = "next"
    /\ \E n \in 1..Len(recv.pending) :
          recv' = DrainLines([recv EXCEPT
                     !.pending = SubSeq(@, n + 1, Len(@)),
                     !.buffer = PushStr(@, SubSeq(recv.pending, 1, n))])
    /\ UNCHANGED <<now, poolVars, trackerVars, dispatchVars, parse_call, script, acc, fed, message, routing, verdict>>

\* stream.next() yields an error of the transport
ReceiveError ==
    /\ recv.pc = "next"
    /\ recv' = ReceiveErr(recv, FromReqwest("decode").kind, <<>>)
    /\ UNCHANGED <<now, poolVars, trackerVars, dispatchVars, parse_call, script, acc, fed, message, routing, verdict>>

\* stream.next() yields None: the body has ended
ReceiveEnd ==
    /\ recv.pc = "next"
    /\ recv.pending = <<>>
    /\ recv' = AfterLastLine(recv)
    /\ UNCHANGED <<now, poolVars, trackerVars, dispatchVars, parse_call, script, acc, fed, message, routing, verdict>>

(***************************************************************************)
(* ModelRoute                                                               *)
(***************************************************************************)
Separator == "/"

\* str::split('/'), collected: the texts between the separators, one more
\* than there are separators
RECURSIVE Split(_)
Split(s) ==
    IF ~ContainsChar(s, Separator) THEN <<s>>
    ELSE <<SubSeq(s, 1, Find(s, Separator) - 1)>>
            \o Split(SubSeq(s, Find(s, Separator) + 1, Len(s)))

\* ModelRoute { provider, model, variant }
Route(provider, model, variant) == [provider |-> provider, model |-> model, variant |-> variant]

\* LlmaoError::Config(format!("Invalid model format '{}'. Expected ...", model_string))
InvalidModelFormat(model_string) ==
    [kind |-> "Config",
     message |-> <<"Invalid model format '">> \o model_string
                    \o <<"'. Expected 'provider/model' or 'provider/model/variant'">>]

\* ModelRoute::parse
Parse(model_string) ==
    LET parts == Split(model_string)
    IN  IF Len(parts) = 2
        THEN [ok |-> TRUE, route |-> Some(Route(parts[1], parts[2], NoneOf)), error |-> NoneOf]
        ELSE IF Len(parts) = 3
        THEN [ok |-> TRUE, route |-> Some(Route(parts[1], parts[2], Some(parts[3]))),
              error |-> NoneOf]
        ELSE [ok |-> FALSE, route |-> NoneOf, error |-> Some(InvalidModelFormat(model_string))]

ModelIdModelOnly(route) == route.model

\* ModelRoute::model_id
ModelId(route) ==
    IF route.variant # NoneOf
    THEN route.model \o <<Separator>> \o Unwrap(route.variant)
    ELSE route.model

\* Display for ModelRoute
Display(route) ==
    IF route.variant # NoneOf
    THEN route.provider \o <<Separator>> \o route.model \o <<Separator>> \o Unwrap(route.variant)
    ELSE route.provider \o <<Separator>> \o route.model

\* the characters of the route strings of the model
RouteChars == {"a", "b", Separator}

\* nothing parsed yet
NoRoute ==
    [pc |-> "idle", input |-> <<>>, result |-> [ok |-> FALSE, route |-> NoneOf, error |-> NoneOf],
     shown |-> NoneOf, model_id |-> NoneOf]

\* ModelRoute::parse is called with a string of at most MaxRouteLen characters
CallParse ==
    /\ routing.pc = "idle"
    /\ \E n \in 0..MaxRouteLen : \E s \in [1..n -> RouteChars] :
          routing' = [NoRoute EXCEPT !.pc = "parsed", !.input = s, !.result = Parse(s)]
    /\ UNCHANGED <<now, poolVars, trackerVars, dispatchVars, parse_call, script, acc, fed, message, recv, verdict>>

\* the route is displayed
CallDisplay ==
    /\ routing.pc = "parsed"
    /\ routing.result.ok
    /\ routing.shown = NoneOf
    /\ routing' = [routing EXCEPT !.shown = Some(Display(Unwrap(routing.result.route)))]
    /\ UNCHANGED <<now, poolVars, trackerVars, dispatchVars, parse_call, script, acc, fed, message, recv, verdict>>

\* model_id is called on the route
CallModelId ==
    /\ routing.pc = "parsed"
    /\ routing.result.ok
    /\ routing.model_id = NoneOf
    /\ routing' = [routing EXCEPT !.model_id = Some(ModelId(Unwrap(routing.result.route)))]
    /\ UNCHANGED <<now, poolVars, trackerVars, dispatchVars, parse_call, script, acc, fed, message, recv, verdict>>

(***************************************************************************)
(* LlmClient::completion                                                    *)
(***************************************************************************)
\* the max_retries completion passes to post_with_retry
CompletionMaxRetries == 3

\* the cooldown of a key when the error carries no retry_after, in ms
DefaultCooldown == 60000

\* no completion call in progress
IdleCompletion ==
    [pc |-> "idle", provider |-> "", max_attempts |-> 0, attempt |-> 0,
     api_key |-> None, last_error |-> NoResult, result |-> NoResult]

\* LlmClient::get_provider finds the provider
ProviderKnown(prov) == prov \in DOMAIN provider_registry

\* a plausible slip: one attempt more than the pool has keys
MaxAttemptsPlusOne(prov) == IF prov \in DOMAIN key_pools THEN PoolLen(prov) + 1 ELSE 1

\* key_pools.get(provider).map(len).unwrap_or(1)
MaxAttempts(prov) == IF prov \in DOMAIN key_pools THEN PoolLen(prov) ELSE 1

\* a plausible slip: no cooldown when the error carries no retry_after
CooldownDurationNoDefault(retry_after) ==
    IF retry_after = None THEN 0 ELSE 1000 * retry_after

\* retry_after.map(from_secs).unwrap_or(from_secs(60)), in ms
CooldownDuration(retry_after) ==
    IF retry_after = None THEN DefaultCooldown ELSE 1000 * retry_after

\* the frame at `return r`
CompletionReturn(f, r) == [f EXCEPT !.pc = "done", !.result = r]

\* the frame at the head of the `for` loop: the next attempt, or the end
LoopHead(f) ==
    IF f.attempt < f.max_attempts THEN [f EXCEPT !.pc = "acquire"]
    ELSE CompletionReturn(f, IF f.last_error.kind = "none"
                             THEN Err("NoKeysAvailable", f.provider)
                             ELSE f.last_error)

\* completion is called for a route of provider `prov`: get_provider, and
\* the attempt budget
Completion(t, prov) ==
    /\ comp[t].pc = "idle"
    /\ http[t].pc = "idle"
    /\ sel[t].pc = "idle"
    /\ comp' = [comp EXCEPT ![t] =
                   IF ~ProviderKnown(prov)
                   THEN CompletionReturn([IdleCompletion EXCEPT !.provider = prov],
                                         Err("ProviderNotFound", prov))
                   ELSE LoopHead([IdleCompletion EXCEPT !.provider = prov,
                                                        !.max_attempts = MaxAttempts(prov)])]
    /\ obs' = [obs EXCEPT ![t] = NoObservation]
    /\ UNCHANGED <<now, poolVars, trackerVars, provider_registry, http, streamVars>>

\* the String of a sequence of characters
RECURSIVE Text(_)
Text(chars) == IF chars = <<>> THEN "" ELSE chars[1] \o Text(Tail(chars))

\* a plausible slip: the provider is looked up before the route is parsed
RouteFailureLate(parsed, prov) == ~parsed.ok /\ ~ProviderKnown(prov)

\* `ModelRoute::parse(model)?` returns the error
RouteFailure(parsed, prov) == ~parsed.ok

\* completion is called with the route string `model`: parse, get_provider,
\* and the attempt budget
CompletionOfRoute(t, model) ==
    /\ comp[t].pc = "idle"
    /\ http[t].pc = "idle"
    /\ sel[t].pc = "idle"
    /\ routing.pc = "idle"
    /\ LET parsed == Parse(model)
           prov == IF parsed.ok THEN Text(Unwrap(parsed.route).provider)
                   ELSE Text(Split(model)[1])
       IN  /\ routing' = [NoRoute EXCEPT !.pc = "parsed", !.input = model, !.result = parsed]
           /\ comp' = [comp EXCEPT ![t] =
                          IF RouteFailure(parsed, prov)
                          THEN CompletionReturn(IdleCompletion, Err("Config", ""))
                          ELSE IF ~ProviderKnown(prov)
                          THEN CompletionReturn([IdleCompletion EXCEPT !.provider = prov],
                                                Err("ProviderNotFound", prov))
                          ELSE LoopHead([IdleCompletion EXCEPT
                                            !.provider = prov,
                                            !.max_attempts = MaxAttempts(prov)])]
    /\ obs' = [obs EXCEPT ![t] = NoObservation]
    /\ UNCHANGED <<now, poolVars, trackerVars, provider_registry, http, parse_call, script, acc,
                   fed, message, recv, verdict>>

\* get_api_key on a provider with a pool: KeyPool::get_key is entered
AcquireFromPool(t) ==
    /\ comp[t].pc = "acquire"
    /\ comp[t].provider \in DOMAIN key_pools
    /\ StartGetKey(t, comp[t].provider)
    /\ disturbed' = [disturbed EXCEPT ![t] = FALSE]
    /\ comp' = [comp EXCEPT ![t] = [@ EXCEPT !.pc = "selecting"]]
    /\ UNCHANGED <<now, trackerVars, provider_registry, http, obs, streamVars>>

\* get_api_key on a provider with a pool: get_key has returned
AcquiredFromPool(t) ==
    /\ comp[t].pc = "selecting"
    /\ sel[t].pc = "ret"
    /\ sel' = [sel EXCEPT ![t] = IdleFrame]
    /\ IF sel[t].result = None
       THEN /\ comp' = [comp EXCEPT ![t] =
                           CompletionReturn(@, Err("NoKeysAvailable", @.provider))]
            /\ UNCHANGED <<http, obs>>
       ELSE LET key == KeyAt(comp[t].provider, sel[t].result).value
            IN  /\ comp' = [comp EXCEPT ![t] = [@ EXCEPT !.pc = "sending", !.api_key = key]]
                /\ http' = [http EXCEPT ![t] =
                               PostFrame(comp[t].provider, key, CompletionMaxRetries)]
                /\ obs' = [obs EXCEPT ![t] = [@ EXCEPT !.sends = @ + 1]]
    /\ UNCHANGED <<now, key_pools, disturbed, history, trackerVars, provider_registry, streamVars>>

\* get_api_key on a provider without a pool: the first key of get_api_keys
AcquireFromConfig(t) ==
    /\ comp[t].pc = "acquire"
    /\ comp[t].provider \notin DOMAIN key_pools
    /\ LET keys == provider_registry[comp[t].provider].keys
       IN  IF keys = <<>>
           THEN /\ comp' = [comp EXCEPT ![t] =
                               CompletionReturn(@, Err("NoKeysAvailable", @.provider))]
                /\ UNCHANGED <<http, obs>>
           ELSE /\ comp' = [comp EXCEPT ![t] =
                               [@ EXCEPT !.pc = "sending", !.api_key = keys[1]]]
                /\ http' = [http EXCEPT ![t] =
                               PostFrame(comp[t].provider, keys[1], CompletionMaxRetries)]
                /\ obs' = [obs EXCEPT ![t] = [@ EXCEPT !.sends = @ + 1]]
    /\ UNCHANGED <<now, poolVars, trackerVars, provider_registry, streamVars>>

\* the match on the result of post_with_retry
CompletionMatch(t) ==
    /\ comp[t].pc = "sending"
    /\ http[t].pc = "done"
    /\ http' = [http EXCEPT ![t] = IdlePost]
    /\ LET r == http[t].ret
           prov == comp[t].provider
       IN  IF r.kind = "RateLimited"
           THEN /\ key_pools' = IF prov \in DOMAIN key_pools
                                THEN PoolMarkRateLimited(prov, comp[t].api_key,
                                                         CooldownDuration(r.retry_after))
                                ELSE key_pools
                /\ disturbed' = IF prov \in DOMAIN key_pools THEN Disturb ELSE disturbed
                /\ obs' = [obs EXCEPT ![t].cooled = @ \cup {comp[t].api_key}]
                /\ comp' = [comp EXCEPT ![t] =
                               LoopHead([@ EXCEPT !.attempt = @ + 1,
                                                  !.last_error =
                                                      [Err("RateLimited", prov) EXCEPT
                                                          !.retry_after = r.retry_after]])]
           ELSE /\ comp' = [comp EXCEPT ![t] = CompletionReturn(@, r)]
                /\ UNCHANGED <<key_pools, disturbed, obs>>
    /\ UNCHANGED <<now, sel, history, trackerVars, provider_registry, streamVars>>

(***************************************************************************)
(* Specifications of the key pool                                           *)
(***************************************************************************)
\* the credential values of a pool of n keys: all different, or the last one
\* a copy of the first
PoolValues(n) ==
    LET distinct == [i \in 1..n |-> i]
    IN  IF n >= 2 THEN {distinct, [distinct EXCEPT ![n] = 1]} ELSE {distinct}

\* no answer fixed beforehand, and a new accumulator
InitAccumulator ==
    /\ acc = NewAccumulator /\ fed = <<>> /\ message = NoneOf
    /\ recv = IdleReceive
    /\ routing = NoRoute
    /\ verdict = NoVerdict
    /\ parse_call = NotParsed
InitStream == script = <<>> /\ InitAccumulator

\* no completion and no send in progress
InitIdle ==
    /\ provider_registry = <<>>
    /\ comp = [t \in Threads |-> IdleCompletion]
    /\ http = [t \in Threads |-> IdlePost]
    /\ obs = [t \in Threads |-> NoObservation]
    /\ InitStream

\* RateLimitTracker::new, and no call made yet
InitTracker ==
    /\ providers = <<>>
    /\ paired_reset = [p \in Providers |-> None]
    /\ last_call = [op |-> "none", provider |-> "", headers |-> <<>>, ret |-> None, at |-> 0]

InitPool ==
    /\ now = 0
    /\ \E n \in 0..MaxKeys : \E vs \in PoolValues(n) : \E s \in Strategies :
          key_pools = (PoolProvider :> NewKeyPool(vs, s))
    /\ sel = [t \in Threads |-> IdleFrame]
    /\ disturbed = [t \in Threads |-> FALSE]
    /\ history = <<>>
    /\ InitTracker
    /\ InitIdle

ThreadStep(t) ==
    \/ GetKey(t)
    \/ RoundRobinStep(t)
    \/ LruStep(t)
    \/ RandomStep(t)
    \/ SoonestStep(t)
    \/ TakeKey(t)

PoolEnv(durations) ==
    \/ \E v \in 1..MaxKeys, d \in durations : MarkRateLimited(v, d)
    \/ \E i \in 1..MaxKeys, d \in durations : KeyMarkRateLimited(i, d)
    \/ \E i \in 1..MaxKeys : ClearRateLimit(i)
    \/ \E d \in TickSteps : Tick(d)

NextPool == (\E t \in Threads : ThreadStep(t)) \/ PoolEnv({2000})

NextPoolSeq == ThreadStep("t1") \/ PoolEnv(Durations)

\* concurrent callers of one pool
SpecPool == InitPool /\ [][NextPool]_vars

\* one caller of one pool
SpecPoolSeq == InitPool /\ [][NextPoolSeq]_vars

NextCooldown ==
    \/ ThreadStep("t1")
    \/ \E v \in 1..MaxKeys, d \in Durations : MarkRateLimited(v, d)
    \/ \E d \in TickSteps : Tick(d)

\* one caller of one pool, and callers that cool credentials down by value
SpecCooldown == InitPool /\ [][NextCooldown]_vars

NextPoolUsage ==
    \/ ThreadStep("t1")
    \/ PoolEnv({2000})
    \/ \E i \in 1..MaxKeys : RecordUsage(i)

\* one caller of one pool, and holders of keys that record their usage
SpecPoolUsage == InitPool /\ [][NextPoolUsage]_vars

(***************************************************************************)
(* Specification of the rate limit tracker: any sequence of calls of its    *)
(* interface, with the headers drawn from small sets                        *)
(***************************************************************************)
\* no header, or the header `name` with one of `values`
OptionalHeader(name, values) == {<<>>} \cup {name :> v : v \in values}

RemainingValues == {<<"0">>, <<"5">>, <<"x">>}
ResetValues == {<<"2">>, <<"5", "0", "0", "m", "s">>, <<"s", "o", "o", "n">>}
RetryAfterValues == {<<"0">>, <<"1">>, <<"1", "m", "3", "0", "s">>, <<"s", "o", "o", "n">>}

ResponseHeaders ==
    {r @@ x : r \in OptionalHeader(RemainingHeader, RemainingValues),
              x \in OptionalHeader(ResetHeader, ResetValues)}

RateLimitErrorHeaders == OptionalHeader(RetryAfterHeader, RetryAfterValues)

\* the providers the tracker specification makes calls for
TrackerProviders == {"p1"}

InitTrackerSpec ==
    /\ now = 0
    /\ key_pools = <<>>
    /\ sel = [t \in Threads |-> IdleFrame]
    /\ disturbed = [t \in Threads |-> FALSE]
    /\ history = <<>>
    /\ InitTracker
    /\ InitIdle

TrackerCall ==
    \/ \E p \in TrackerProviders, h \in ResponseHeaders : UpdateFromResponse(p, h)
    \/ \E p \in TrackerProviders, h \in RateLimitErrorHeaders : UpdateFromRateLimitError(p, h)
    \/ \E p \in TrackerProviders : CallShouldWait(p)
    \/ \E p \in TrackerProviders : Clear(p)

NextTracker == TrackerCall \/ \E d \in TickSteps : Tick(d)

SpecTracker == InitTrackerSpec /\ [][NextTracker]_vars

(***************************************************************************)
(* Specifications of the transport and of the dispatch: the answers of the  *)
(* provider are drawn from small sets                                       *)
(***************************************************************************)
Statuses == {200, 429, 400, 401, 403, 500}
BodyPlain == <<"o", "k">>
BodyLimit == <<"R", "a", "t", "e", " ", "L", "i", "m", "i", "t">>
Response(status, body, read_error, parses) ==
    [status |-> status, body |-> body, read_error |-> read_error, parses |-> parses]
\* every status with a plain body; a success whose body does not deserialize
\* or cannot be read; the marker in the body of a 400, of a 401, of a 403 and
\* of a 500, and in a body that cannot be read
Responses ==
    {Response(st, BodyPlain, "", TRUE) : st \in Statuses}
        \cup {Response(200, BodyPlain, "", FALSE), Response(200, BodyPlain, "timeout", TRUE),
              Response(200, BodyPlain, "decode", TRUE)}
        \cup {Response(st, BodyLimit, "", TRUE) : st \in {400, 401, 403, 500}}
        \cup {Response(st, BodyLimit, "decode", TRUE) : st \in {400, 403}}
TransportErrors == {"connect", "timeout", "decode", "request"}
AnswerHeaders ==
    {<<>>,
     (RemainingHeader :> <<"5">>),
     (RemainingHeader :> <<"0">>) @@ (ResetHeader :> <<"2">>),
     (RetryAfterHeader :> <<"1">>)}

\* a credential of a provider without a pool
ConfigKey == 9
\* the threads that call the transport and the dispatch
Callers == {"t1"}

\* the steps of a post_with_retry call, whoever made it
PostStep(t) ==
    \/ PostCheckWait(t)
    \/ PostSleep(t)
    \/ \E r \in Responses, h \in AnswerHeaders : PostResponse(t, r, h)
    \/ \E e \in TransportErrors : PostTransportError(t, e)

InitSend ==
    /\ now = 0
    /\ key_pools = <<>>
    /\ sel = [t \in Threads |-> IdleFrame]
    /\ disturbed = [t \in Threads |-> FALSE]
    /\ history = <<>>
    /\ InitTracker
    /\ InitIdle

NextSend ==
    \/ \E t \in Callers : PostStep(t)
    \/ \E t \in Callers, p \in Providers, m \in 0..MaxRetriesArg :
          CallPostWithRetry(t, p, ConfigKey, m)
    \/ \E t \in Callers : TakePostResult(t)
    \/ \E d \in TickSteps : Tick(d)

\* callers of post_with_retry
SpecSend == InitSend /\ [][NextSend]_vars

\* callers of post_with_retry on a runtime that polls a call that can go
\* on, every request being answered or failing
SpecSendFair == SpecSend /\ \A t \in Callers : WF_vars(PostStep(t))

\* an answer of the provider: a response with its headers, or a failure of
\* the transport
Answer(resp, headers) == [error |-> "", resp |-> resp, headers |-> headers]
Failure(e) == [error |-> e, resp |-> NoResponse, headers |-> <<>>]
ScriptAnswers ==
    {Answer(Response(st, BodyPlain, "", TRUE), <<>>) : st \in {200, 401, 403, 500}}
        \cup {Answer(Response(403, BodyLimit, "", TRUE), <<>>),
              Answer(Response(429, BodyPlain, "", TRUE),
                     (RemainingHeader :> <<"0">>) @@ (ResetHeader :> <<"2">>))}
        \cup {Failure(e) : e \in {"connect", "timeout", "decode"}}
Scripts == [1..ScriptLen -> ScriptAnswers]

\* the thread that calls post_with_retry and the thread that calls
\* post_stream, each with a provider of its own
BufferedCaller == "t1"
StreamCaller == "t2"
ProviderOf(t) == IF t = BufferedCaller THEN "p1" ELSE "p2"

\* the entry an earlier response leaves that came at time 0 with no request
\* remaining and a reset after one second
Exhausted == [DefaultRateLimit EXCEPT !.requests_remaining = 0, !.reset_at = 1000]

InitStreamSend ==
    /\ now = 0
    /\ key_pools = <<>>
    /\ sel = [t \in Threads |-> IdleFrame]
    /\ disturbed = [t \in Threads |-> FALSE]
    /\ history = <<>>
    /\ providers \in {<<>>, [p \in Providers |-> Exhausted]}
    /\ paired_reset = [p \in Providers |-> None]
    /\ last_call = [op |-> "none", provider |-> "", headers |-> <<>>, ret |-> None, at |-> 0]
    /\ provider_registry = <<>>
    /\ comp = [t \in Threads |-> IdleCompletion]
    /\ http = [t \in Threads |-> IdlePost]
    /\ obs = [t \in Threads |-> NoObservation]
    /\ script \in Scripts
    /\ InitAccumulator

\* the answer to the next request of t's call
NextAnswer(t) == script[obs[t].requests + 1]

\* the request of the buffered send is answered as the script says
ScriptedPostAnswer(t) ==
    /\ obs[t].requests < Len(script)
    /\ IF NextAnswer(t).error = ""
       THEN PostResponse(t, NextAnswer(t).resp, NextAnswer(t).headers)
       ELSE PostTransportError(t, NextAnswer(t).error)

\* the request of the streaming send is answered as the script says
ScriptedStreamAnswer(t) ==
    /\ obs[t].requests < Len(script)
    /\ IF NextAnswer(t).error = ""
       THEN StreamResponse(t, NextAnswer(t).resp, NextAnswer(t).headers)
       ELSE StreamTransportError(t, NextAnswer(t).error)

NextStreamSend ==
    \/ \E m \in 0..(ScriptLen - 1) :
          CallPostWithRetry(BufferedCaller, ProviderOf(BufferedCaller), ConfigKey, m)
    \/ PostCheckWait(BufferedCaller)
    \/ \E t \in {BufferedCaller, StreamCaller} : PostSleep(t)
    \/ ScriptedPostAnswer(BufferedCaller)
    \/ CallPostStream(StreamCaller, ProviderOf(StreamCaller), ConfigKey)
    \/ StreamCheckWait(StreamCaller)
    \/ ScriptedStreamAnswer(StreamCaller)

\* one post_with_retry call and one post_stream call against providers that
\* give the same answers to both
SpecStreamSend == InitStreamSend /\ [][NextStreamSend]_vars

(***************************************************************************)
(* Specification of the accumulator: the chunks of the stream are drawn     *)
(* from a small set                                                         *)
(***************************************************************************)
Hello == <<"H", "e", "l", "l", "o">>
World == <<" ", "W", "o", "r", "l", "d">>
Fragments == {<<"a">>, <<"a", "a">>, <<"b">>}

\* StreamChunk, StreamChoice with its StreamDelta, ToolCallDelta with its
\* FunctionDelta
Chunk(meta, choices, usage) ==
    [id |-> meta.id, object |-> "chat.completion.chunk", created |-> meta.created,
     model |-> meta.model, choices |-> choices, usage |-> usage]
Choice(index, role, content, tool_calls, finish_reason) ==
    [index |-> index, delta |-> [role |-> role, content |-> content, tool_calls |-> tool_calls],
     finish_reason |-> finish_reason]
ToolCallDelta(index, id, call_type, function) ==
    [index |-> index, id |-> id, call_type |-> call_type, function |-> function]
FunctionDelta(name, arguments) == [name |-> name, arguments |-> arguments]

MetaA == [id |-> "test", created |-> 12345, model |-> "gpt-4"]
MetaB == [id |-> "other", created |-> 67890, model |-> "gpt-3.5"]
UsageA == [prompt_tokens |-> 1, completion_tokens |-> 2, total_tokens |-> 3]
UsageB == [prompt_tokens |-> 1, completion_tokens |-> 5, total_tokens |-> 6]

\* the two chunks of test_stream_accumulator; chunks with a role, with two
\* choices, with usage, with no choice, with nothing
ContentChunks ==
    {Chunk(MetaA, <<Choice(0, Some("assistant"), Some(Hello), NoneOf, NoneOf)>>, NoneOf),
     Chunk(MetaA, <<Choice(0, NoneOf, Some(World), NoneOf, Some("stop"))>>, NoneOf),
     Chunk(MetaB, <<Choice(0, Some("user"), Some(<<"H">>), NoneOf, Some("length"))>>, Some(UsageA)),
     Chunk(MetaB, <<Choice(0, NoneOf, Some(<<"a">>), NoneOf, Some("length")),
                    Choice(1, Some("user"), Some(<<"b">>), NoneOf, NoneOf)>>, NoneOf),
     Chunk(MetaA, <<Choice(0, Some("tool"), Some(<<"a">>), NoneOf, NoneOf),
                    Choice(1, Some("assistant"), Some(<<"b">>), NoneOf, Some("stop"))>>,
           Some(UsageB)),
     Chunk(MetaB, <<>>, Some(UsageB)),
     Chunk(MetaA, <<>>, NoneOf),
     Chunk(MetaB, <<Choice(0, Some("user"), NoneOf, NoneOf, NoneOf)>>, NoneOf)}

\* the deltas of the tool call i: the opening delta with the id, the type,
\* the name and an empty argument text; a fragment of the argument text; a
\* delta that supplies an id and a name again; a delta that supplies nothing
ToolCallDeltas(i) ==
    {ToolCallDelta(i, Some("call_1"), Some("function"), Some(FunctionDelta(Some(<<"f">>), Some(<<>>)))),
     ToolCallDelta(i, Some("call_2"), NoneOf, Some(FunctionDelta(Some(<<"g">>), NoneOf))),
     ToolCallDelta(i, NoneOf, NoneOf, NoneOf)}
        \cup {ToolCallDelta(i, NoneOf, NoneOf, Some(FunctionDelta(NoneOf, Some(x)))) : x \in Fragments}

\* a chunk of one choice with the tool call deltas ds
ToolChunk(ds) == Chunk(MetaA, <<Choice(0, NoneOf, NoneOf, Some(ds), NoneOf)>>, NoneOf)

\* chunks with one delta for the first or for the last index, a chunk with
\* a delta for each, and a chunk with an empty list of deltas
ToolChunks ==
    {ToolChunk(<<d>>) : d \in ToolCallDeltas(0) \cup ToolCallDeltas(MaxIndex)}
        \cup {ToolChunk(<<ToolCallDelta(1, Some("call_1"), Some("function"), NoneOf),
                          ToolCallDelta(0, NoneOf, NoneOf, Some(FunctionDelta(NoneOf, Some(<<"b">>))))>>),
              ToolChunk(<<>>)}

Chunks == ContentChunks \cup ToolChunks

NextAccumulator ==
    \/ \E chunk \in Chunks : ProcessChunk(chunk)
    \/ IntoMessage

\* one streaming request that feeds its accumulator and takes the message
SpecAccumulator == InitSend /\ [][NextAccumulator]_vars

(***************************************************************************)
(* Specification of the receive loop                                        *)
(***************************************************************************)
NextReceive ==
    \/ StartReceive
    \/ ReceiveBytes
    \/ ReceiveError
    \/ ReceiveEnd

\* one streaming completion whose request was answered with a stream
SpecReceive == InitSend /\ [][NextReceive]_vars

(***************************************************************************)
(* Specification of the classification of answers                           *)
(***************************************************************************)
NextSignal == CallIsRateLimitError

\* one call of is_rate_limit_error
SpecSignal == InitSend /\ [][NextSignal]_vars

(***************************************************************************)
(* Specification of the duration strings                                    *)
(***************************************************************************)
NextDuration == CallParseDurationString

\* one call of parse_duration_string
SpecDuration == InitSend /\ [][NextDuration]_vars

(***************************************************************************)
(* Specification of the routes                                              *)
(***************************************************************************)
NextRoute ==
    \/ CallParse
    \/ CallDisplay
    \/ CallModelId

\* one route string is parsed, and the route displayed and asked for its
\* model id
SpecRoute == InitSend /\ [][NextRoute]_vars

\* the pool as a completion leaves it that has just now found every
\* credential rate limited: the first key of each value is cooled down, and
\* the round-robin cursor has passed every key once
AfterRateLimitedCompletion(pool) ==
    [pool EXCEPT
        !.keys = [i \in 1..Len(pool.keys) |->
                     IF \A j \in 1..(i - 1) : pool.keys[j].value # pool.keys[i].value
                     THEN [pool.keys[i] EXCEPT !.rate_limited_until = DefaultCooldown]
                     ELSE pool.keys[i]],
        !.current_index = IF pool.strategy = "RoundRobin" THEN Len(pool.keys) ELSE 0]

InitDispatch ==
    /\ now = 0
    /\ \E n \in 1..MaxKeys : \E vs \in PoolValues(n) : \E s \in Strategies :
       \E earlier \in BOOLEAN :
          /\ key_pools = (PoolProvider :>
                             IF earlier THEN AfterRateLimitedCompletion(NewKeyPool(vs, s))
                             ELSE NewKeyPool(vs, s))
          /\ providers = IF earlier THEN (PoolProvider :> DefaultRateLimit) ELSE <<>>
    /\ sel = [t \in Threads |-> IdleFrame]
    /\ disturbed = [t \in Threads |-> FALSE]
    /\ history = <<>>
    /\ paired_reset = [p \in Providers |-> None]
    /\ last_call = [op |-> "none", provider |-> "", headers |-> <<>>, ret |-> None, at |-> 0]
    /\ \E known \in {{"p1", "p2"}, {"p2"}}, ks \in {<<>>, <<ConfigKey>>} :
          provider_registry = [p \in known |-> [keys |-> IF p = "p2" THEN ks ELSE <<>>]]
    /\ comp = [t \in Threads |-> IdleCompletion]
    /\ http = [t \in Threads |-> IdlePost]
    /\ obs = [t \in Threads |-> NoObservation]
    /\ InitStream

NextDispatch ==
    \/ \E t \in Callers, p \in Providers : Completion(t, p)
    \/ \E t \in Callers : AcquireFromPool(t)
    \/ \E t \in Callers : RoundRobinStep(t)
    \/ \E t \in Callers : LruStep(t)
    \/ \E t \in Callers : RandomStep(t)
    \/ \E t \in Callers : SoonestStep(t)
    \/ \E t \in Callers : AcquiredFromPool(t)
    \/ \E t \in Callers : AcquireFromConfig(t)
    \/ \E t \in Callers : PostStep(t)
    \/ \E t \in Callers : CompletionMatch(t)
    \/ \E d \in TickSteps : Tick(d)

\* one completion call
SpecDispatch == InitDispatch /\ [][NextDispatch]_vars

\* the answers that are rate limit signals: a 429, and the marker in the body
\* of another failure
SignalResponses ==
    {Response(429, BodyPlain, "", TRUE)}
        \cup {Response(st, BodyLimit, "", TRUE) : st \in {400, 403, 500}}

\* the steps of a completion call whose every request is answered with a
\* rate limit signal
RateLimitedStep(t) ==
    \/ AcquireFromPool(t)
    \/ RoundRobinStep(t)
    \/ LruStep(t)
    \/ RandomStep(t)
    \/ SoonestStep(t)
    \/ AcquiredFromPool(t)
    \/ AcquireFromConfig(t)
    \/ PostCheckWait(t)
    \/ PostSleep(t)
    \/ \E r \in SignalResponses, h \in AnswerHeaders : PostResponse(t, r, h)
    \/ CompletionMatch(t)

NextRateLimited ==
    \/ \E t \in Callers, p \in Providers : Completion(t, p)
    \/ \E t \in Callers : RateLimitedStep(t)
    \/ \E d \in TickSteps : Tick(d)

\* one completion call against providers that answer every request with a
\* rate limit signal; the runtime polls a task that can go on, and every
\* request is answered
SpecRateLimited ==
    /\ InitDispatch
    /\ [][NextRateLimited]_vars
    /\ \A t \in Callers : WF_vars(RateLimitedStep(t))

\* HTTP 429 with no header about the rate limit
TooManyRequests == Response(429, BodyPlain, "", TRUE)

\* HTTP 200 with a body that deserializes
Success == Response(200, BodyPlain, "", TRUE)

\* the steps of a completion call whose every request is answered with
\* HTTP 429 and no retry-after header
ThrottledStep(t) ==
    \/ AcquireFromPool(t)
    \/ RoundRobinStep(t)
    \/ LruStep(t)
    \/ RandomStep(t)
    \/ SoonestStep(t)
    \/ AcquiredFromPool(t)
    \/ AcquireFromConfig(t)
    \/ PostCheckWait(t)
    \/ PostSleep(t)
    \/ PostResponse(t, TooManyRequests, <<>>)
    \/ CompletionMatch(t)

NextThrottled ==
    \/ \E t \in Callers, p \in Providers : Completion(t, p)
    \/ \E t \in Callers : ThrottledStep(t)
    \/ \E d \in TickSteps : Tick(d)

\* one completion call against providers that answer every request with
\* HTTP 429 and no retry-after header
SpecThrottled == InitDispatch /\ [][NextThrottled]_vars

(***************************************************************************)
(* Specification of the completion of a route string                        *)
(***************************************************************************)
\* the provider segments of the route strings: two that may be known, one
\* that never is, and the empty one
ProviderSegments == {<<"p", "1">>, <<"p", "2">>, <<"p", "3">>, <<>>}
\* the model and variant segments
ModelSegments == {<<"m">>, <<>>}

\* the route strings completion is called with: 1 to 4 segments
RouteInputs ==
    LET sep == <<Separator>>
    IN  ProviderSegments
            \cup {pr \o sep \o m : pr \in ProviderSegments, m \in ModelSegments}
            \cup {pr \o sep \o m \o sep \o v :
                     pr \in ProviderSegments, m \in ModelSegments, v \in ModelSegments}
            \cup {pr \o sep \o m \o sep \o m \o sep \o m :
                     pr \in ProviderSegments, m \in ModelSegments}

\* the steps of a completion call that was given a route string, each request
\* of which is answered with a success or with HTTP 429
RoutedStep(t) ==
    \/ \E model \in RouteInputs : CompletionOfRoute(t, model)
    \/ AcquireFromPool(t)
    \/ RoundRobinStep(t)
    \/ LruStep(t)
    \/ RandomStep(t)
    \/ SoonestStep(t)
    \/ AcquiredFromPool(t)
    \/ AcquireFromConfig(t)
    \/ PostCheckWait(t)
    \/ PostSleep(t)
    \/ PostResponse(t, Success, <<>>)
    \/ PostResponse(t, TooManyRequests, <<>>)
    \/ CompletionMatch(t)

NextRouted == \E t \in Callers : RoutedStep(t)

\* one completion call with a route string
SpecRouted == InitDispatch /\ [][NextRouted]_vars

(***************************************************************************)
(* Specification of the rotation within a completion                        *)
(***************************************************************************)
\* a client with one known provider, whose pool holds RotationKeys different
\* credentials; the pool is new, or as an earlier completion left it that
\* was rate limited
InitRotation ==
    /\ now = 0
    /\ \E s \in Strategies, earlier \in BOOLEAN :
          LET pool == NewKeyPool([i \in 1..RotationKeys |-> i], s)
          IN  /\ key_pools = (PoolProvider :>
                                 IF earlier THEN AfterRateLimitedCompletion(pool) ELSE pool)
              /\ providers = IF earlier THEN (PoolProvider :> DefaultRateLimit) ELSE <<>>
    /\ sel = [t \in Threads |-> IdleFrame]
    /\ disturbed = [t \in Threads |-> FALSE]
    /\ history = <<>>
    /\ paired_reset = [p \in Providers |-> None]
    /\ last_call = [op |-> "none", provider |-> "", headers |-> <<>>, ret |-> None, at |-> 0]
    /\ provider_registry = (PoolProvider :> [keys |-> <<>>])
    /\ comp = [t \in Threads |-> IdleCompletion]
    /\ http = [t \in Threads |-> IdlePost]
    /\ obs = [t \in Threads |-> NoObservation]
    /\ InitStream

\* the headers of an answer that reports a quota used up for a minute
QuotaUsedUp == (RemainingHeader :> <<"0">>) @@ (ResetHeader :> <<"6", "0">>)

\* the steps of a completion call to the provider, each request of which is
\* answered with HTTP 429, with or without the headers of the quota
RotationStep(t) ==
    \/ Completion(t, PoolProvider)
    \/ AcquireFromPool(t)
    \/ RoundRobinStep(t)
    \/ LruStep(t)
    \/ RandomStep(t)
    \/ SoonestStep(t)
    \/ AcquiredFromPool(t)
    \/ PostCheckWait(t)
    \/ PostSleep(t)
    \/ PostResponse(t, TooManyRequests, <<>>)
    \/ PostResponse(t, TooManyRequests, QuotaUsedUp)
    \/ CompletionMatch(t)

NextRotation == \E t \in Callers : RotationStep(t)

\* completion calls, one after the other, against a provider that answers
\* every request with HTTP 429
SpecRotation == InitRotation /\ [][NextRotation]_vars

(***************************************************************************)
(* Specification of two providers in use at the same time                   *)
(***************************************************************************)
\* each provider has a pool of one credential, the same value in both; the
\* pools are new, or as earlier completions left them that were rate limited
InitProviders ==
    /\ now = 0
    /\ \E s \in Strategies, earlier \in BOOLEAN :
          /\ key_pools = [p \in Providers |->
                             IF earlier THEN AfterRateLimitedCompletion(NewKeyPool(<<1>>, s))
                             ELSE NewKeyPool(<<1>>, s)]
          /\ providers = IF earlier THEN [p \in Providers |-> DefaultRateLimit] ELSE <<>>
    /\ sel = [t \in Threads |-> IdleFrame]
    /\ disturbed = [t \in Threads |-> FALSE]
    /\ history = <<>>
    /\ paired_reset = [p \in Providers |-> None]
    /\ last_call = [op |-> "none", provider |-> "", headers |-> <<>>, ret |-> None, at |-> 0]
    /\ provider_registry = [p \in Providers |-> [keys |-> <<>>]]
    /\ comp = [t \in Threads |-> IdleCompletion]
    /\ http = [t \in Threads |-> IdlePost]
    /\ obs = [t \in Threads |-> NoObservation]
    /\ InitStream

\* the steps of the completion of thread t, which is for its own provider
ProviderStep(t) ==
    \/ Completion(t, ProviderOf(t))
    \/ AcquireFromPool(t)
    \/ RoundRobinStep(t)
    \/ LruStep(t)
    \/ RandomStep(t)
    \/ SoonestStep(t)
    \/ AcquiredFromPool(t)
    \/ PostCheckWait(t)
    \/ PostSleep(t)
    \/ PostResponse(t, Success, <<>>)
    \/ PostResponse(t, TooManyRequests, <<>>)
    \/ CompletionMatch(t)

\* one more caller of the tracker, who makes one call
TrackerStep ==
    /\ last_call.op = "none"
    /\ \E p \in Providers :
          \/ UpdateFromRateLimitError(p, (RetryAfterHeader :> <<"1">>))
          \/ Clear(p)

NextProviders ==
    \/ \E t \in Threads : ProviderStep(t)
    \/ TrackerStep

\* two concurrent completions, one for each provider, and callers of the
\* tracker's other operations
SpecProviders == InitProviders /\ [][NextProviders]_vars

(***************************************************************************)
(* Specification of the backoff: calls of post_with_retry whose requests    *)
(* are all answered with HTTP 429 or fail with a timeout                    *)
(***************************************************************************)
BackoffStep(t) ==
    \/ \E m \in 0..MaxBackoffRetries : CallPostWithRetry(t, PoolProvider, ConfigKey, m)
    \/ PostCheckWait(t)
    \/ PostSleep(t)
    \/ PostResponse(t, TooManyRequests, <<>>)
    \/ PostTransportError(t, "timeout")
    \/ TakePostResult(t)

NextBackoff == \E t \in Callers : BackoffStep(t)

SpecBackoff == InitSend /\ [][NextBackoff]_vars

(***************************************************************************)
(* Claims about the key pool                                                *)
(***************************************************************************)
\* the cooldown deadline of key i lies in the future
Cooled(prov, i) ==
    /\ KeyAt(prov, i).rate_limited_until # None
    /\ now < KeyAt(prov, i).rate_limited_until

\* the time key i stays cooled down, 0 when it is not
Remaining(prov, i) ==
    IF Cooled(prov, i) THEN KeyAt(prov, i).rate_limited_until - now ELSE 0

\* thread t is at the return of a get_key call during which no cooldown was
\* set, cleared or expired
QuietReturn(t) == sel[t].pc = "ret" /\ ~disturbed[t]

\* C1: under every rotation policy and every interleaving of concurrent
\* select() calls, a call during which no cooldown is set or expires never
\* returns a credential whose deadline is in the future while the pool holds
\* a credential with no active cooldown
C1_NeverCooledWhileUncooledExists ==
    \A t \in Threads :
        (QuietReturn(t) /\ sel[t].result # None /\ Cooled(sel[t].prov, sel[t].result))
            => \A i \in 1..PoolLen(sel[t].prov) : Cooled(sel[t].prov, i)

\* C1's case: a round-robin call met only cooled-down credentials in a full
\* cycle (concurrent calls took the cursor values of the others), fell back,
\* and returns while the pool holds both a cooled-down and a usable credential
C1_Witness ==
    \E t \in Threads :
        /\ QuietReturn(t)
        /\ key_pools[sel[t].prov].strategy = "RoundRobin"
        /\ sel[t].attempts = PoolLen(sel[t].prov)
        /\ \E i, j \in 1..PoolLen(sel[t].prov) :
              Cooled(sel[t].prov, i) /\ ~Cooled(sel[t].prov, j)
        /\ ~Cooled(sel[t].prov, sel[t].result)

\* C2: under round-robin, consecutive select() calls that meet no cooled-down
\* credential return the credentials in pool order from the cursor: any n of
\* them are pairwise different and the next one is the first again
C2_RoundRobinVisitsEachOnce ==
    LET n == PoolLen(PoolProvider)
        h == history
    IN  key_pools[PoolProvider].strategy = "RoundRobin" =>
          /\ \A i, j \in 1..Len(h) :
                /\ (i < j /\ j - i < n) => h[i] # h[j]
                /\ j - i = n => h[i] = h[j]
          /\ \A i \in 1..(Len(h) - 1) : h[i + 1] = (h[i] % n) + 1
          /\ (h # <<>> /\ sel["t1"].pc = "ret") =>
                h[Len(h)] = ((key_pools[PoolProvider].current_index - 1) % n) + 1

\* C2's case: n + 1 consecutive calls on the largest pool
C2_Witness ==
    /\ key_pools[PoolProvider].strategy = "RoundRobin"
    /\ PoolLen(PoolProvider) = MaxKeys
    /\ Len(history) = MaxKeys + 1

\* C3: select() returns None exactly on the empty pool; on a non-empty pool
\* whose credentials are all cooled down all_cooled_down() is true and
\* select() returns the credential with the smallest remaining cooldown, the
\* one min_remaining_cooldown() reports
C3_SoonestWhenAllCooled ==
    \A t \in Threads :
        sel[t].pc = "ret" =>
            LET prov == sel[t].prov
                allCooled == \A i \in 1..PoolLen(prov) : Cooled(prov, i)
            IN  /\ sel[t].result = None <=> PoolLen(prov) = 0
                /\ (~disturbed[t] /\ PoolLen(prov) > 0 /\ allCooled) =>
                      /\ AllRateLimited(prov)
                      /\ Remaining(prov, sel[t].result) = MinWaitTime(prov)

(***************************************************************************)
(* Claims about the rate limit tracker                                      *)
(***************************************************************************)
\* the latest tracker call was `op`, and the clock has not moved since
JustCalled(op) == last_call.op = op /\ last_call.at = now

\* the remaining requests header of the latest call parses to more than 0
RemainingPositive ==
    /\ RemainingHeader \in DOMAIN last_call.headers
    /\ ParseUnsigned(last_call.headers[RemainingHeader]) > 0

C7_WaitHintExactly ==
    \A p \in TrackerProviders :
        LET w == ShouldWait(p)
            stored == p \in DOMAIN providers
            a == /\ stored
                 /\ providers[p].requests_remaining = 0
                 /\ providers[p].reset_at # None
                 /\ now < providers[p].reset_at
            b == /\ stored
                 /\ providers[p].retry_after # None
                 /\ paired_reset[p] # None
                 /\ now < paired_reset[p]
        IN  (w # None /\ w > 0) <=> (a \/ b)

\* C8: whenever the stored remaining count of a provider is 0 and its reset
\* deadline is in the future, should_wait returns a nonzero duration
C8_ZeroRemainingImpliesWait ==
    \A p \in DOMAIN providers :
        (/\ providers[p].requests_remaining = 0
         /\ providers[p].reset_at # None
         /\ now < providers[p].reset_at)
            => (ShouldWait(p) # None /\ ShouldWait(p) > 0)

\* C8's case: the quota is exhausted, the reset lies ahead, and no
\* retry-after is stored
C8_Witness ==
    \E p \in DOMAIN providers :
        /\ providers[p].requests_remaining = 0
        /\ providers[p].reset_at # None
        /\ now < providers[p].reset_at
        /\ providers[p].retry_after = None

\* C9: a stored retry-after always comes with a stored reset deadline, and a
\* should_wait call with no update since returns the time from the call to
\* that deadline, or None once the deadline has passed: never the raw
\* retry-after
C9_OneFixedDeadline ==
    /\ \A p \in DOMAIN providers :
          providers[p].retry_after # None => providers[p].reset_at # None
    /\ (last_call.op = "should_wait" /\ last_call.provider \in DOMAIN providers) =>
          LET info == providers[last_call.provider]
              pending == info.reset_at # None /\ last_call.at < info.reset_at
          IN  /\ last_call.ret \in {None, info.reset_at - last_call.at}
              /\ last_call.ret # None => pending
              /\ (pending /\ info.retry_after # None) => last_call.ret # None

\* C9's case: should_wait is called some time after a retry-after was
\* stored, and returns less than the retry-after
C9_Witness ==
    /\ last_call.op = "should_wait"
    /\ last_call.provider \in DOMAIN providers
    /\ providers[last_call.provider].retry_after # None
    /\ paired_reset[last_call.provider] = providers[last_call.provider].reset_at
    /\ last_call.ret # None
    /\ last_call.ret < providers[last_call.provider].retry_after

(***************************************************************************)
(* Claims about the dispatch and the transport                              *)
(***************************************************************************)
\* the size of the provider's pool, 1 when it has no pool
Budget(prov) == IF prov \in DOMAIN key_pools THEN Len(key_pools[prov].keys) ELSE 1

\* the step of thread t that takes the result of a send attempt
C4_AfterAttempt(t) ==
    (comp[t].pc = "sending" /\ http[t].pc = "done" /\ comp'[t] # comp[t]) =>
        LET r == http[t].ret
            prov == comp[t].provider
        IN  IF r.kind = "RateLimited"
            THEN /\ prov \in DOMAIN key_pools =>
                       \E i \in 1..Len(key_pools[prov].keys) :
                           /\ key_pools[prov].keys[i].value = comp[t].api_key
                           /\ key_pools'[prov].keys[i].rate_limited_until = now + 60000
                 /\ comp'[t].attempt = comp[t].attempt + 1
                 /\ IF comp'[t].attempt < Budget(prov)
                    THEN comp'[t].pc = "acquire"
                    ELSE comp'[t].pc = "done" /\ comp'[t].result.kind = "RateLimited"
            ELSE /\ comp'[t].pc = "done"
                 /\ comp'[t].result = r
                 /\ key_pools' = key_pools

\* C4: a completion calls post_with_retry at most P times, P the size of the
\* provider's pool or 1 without a pool; after an attempt that ends
\* RateLimited it cools the key of that attempt down and goes back to acquire
\* a key with one attempt less left; after a success or any other error it
\* returns that result at once and cools no key down
C4_AttemptBudget ==
    /\ [](\A t \in Callers :
            comp[t].pc # "idle" => obs[t].sends <= Budget(comp[t].provider))
    /\ [][\A t \in Callers : C4_AfterAttempt(t)]_vars

\* C4's case: on a pool of two keys the first attempt ended RateLimited, its
\* key is cooled down, and the second attempt succeeded
C4_Witness ==
    \E t \in Callers :
        /\ comp[t].pc = "done"
        /\ comp[t].result.kind = "Ok"
        /\ comp[t].attempt = 1
        /\ obs[t].sends = 2
        /\ \E i \in 1..Len(key_pools[comp[t].provider].keys) :
              key_pools[comp[t].provider].keys[i].rate_limited_until > 60000

\* C5: when every request is answered with a rate limit signal, a
\* completion issues at most pool size x (3 + 1) HTTP requests, always
\* returns, and having issued a request returns RateLimited with the
\* provider of the route
C5_AllRateLimitedTerminates ==
    /\ [](\A t \in Callers :
            comp[t].pc # "idle" =>
                /\ obs[t].requests <= Budget(comp[t].provider) * (3 + 1)
                /\ (comp[t].pc = "done" /\ obs[t].requests > 0) =>
                      /\ comp[t].result.kind = "RateLimited"
                      /\ comp[t].result.provider = comp[t].provider)
    /\ \A t \in Callers : (comp[t].pc # "idle") ~> (comp[t].pc = "done")

\* C5's case: every key of the largest pool was tried, every request was
\* answered with a rate limit signal, and the completion has returned
C5_Witness ==
    \E t \in Callers :
        /\ comp[t].pc = "done"
        /\ Budget(comp[t].provider) = MaxKeys
        /\ obs[t].requests = MaxKeys * (3 + 1)
        /\ comp[t].result.kind = "RateLimited"

\* C10 as stated: once post_with_retry has classified a response as a rate
\* limit signal the tracker holds a retry-after and a reset deadline for the
\* provider; the call issues at most max_retries + 1 requests, and the
\* signal that exceeds the budget yields RateLimited with the provider
C10_SignalRecordedInTracker ==
    \A t \in Callers :
        (http[t].pc # "idle" /\ http[t].signal) =>
            /\ http[t].provider \in DOMAIN providers
            /\ providers[http[t].provider].retry_after # None
            /\ providers[http[t].provider].reset_at # None
            /\ obs[t].requests <= http[t].max_retries + 1
            /\ http[t].retries > http[t].max_retries =>
                  /\ http[t].pc = "done"
                  /\ http[t].ret.kind = "RateLimited"
                  /\ http[t].ret.provider = http[t].provider

(***************************************************************************)
(* Claims about the buffered send                                           *)
(***************************************************************************)
\* the response r is answered to t's request in this step
Answered(t, r) ==
    /\ http'[t] = AfterBody([http[t] EXCEPT !.resp = r])
    /\ \E h \in AnswerHeaders : PostResponse(t, r, h)

\* the call of t returns the error kind in this step, its request counted
FailsAtOnce(t, kind) ==
    /\ http'[t].pc = "done"
    /\ http'[t].ret.kind = kind
    /\ obs'[t].requests = obs[t].requests + 1

\* the readable body of r holds none of the rate limit markers
NoMarker(r) == r.read_error # "" \/ ~IsRateLimitError(0, r.body)

\* C11 as stated: a response with status 401 or 403, whatever its body, makes
\* post_with_retry return an authentication error at once, with no further
\* request
C11_AuthFailsAtOnce ==
    [][\A t \in Callers : http[t].pc = "send" =>
          \A r \in Responses :
              (r.status \in {401, 403} /\ Answered(t, r)) => FailsAtOnce(t, "Auth")]_vars

\* C11 amended: a response with status 401 or 403 whose body holds no rate
\* limit marker, or whose body cannot be read, makes post_with_retry return
\* an authentication error at once, with no further request; with a marker
\* in the body that was read the response counts as a rate limit signal
C11_AuthFailsAtOnceAmended ==
    /\ [][\A t \in Callers : http[t].pc = "send" =>
            \A r \in Responses :
                (r.status \in {401, 403} /\ Answered(t, r)) =>
                    IF NoMarker(r) THEN FailsAtOnce(t, "Auth")
                    ELSE /\ http'[t].signal
                         /\ http'[t].retries = http[t].retries + 1
                         /\ http'[t].ret.kind \in {"none", "RateLimited"}]_vars
    /\ [][\A t \in Callers :
            http[t].pc = "done" => http'[t].pc \in {"done", "idle"} /\ obs'[t] = obs[t]]_vars

\* C11's case: a call that had a retry left was answered 403 and has
\* returned the authentication error after that one request
C11_Witness ==
    \E t \in Callers :
        /\ http[t].pc = "done"
        /\ http[t].ret.kind = "Auth"
        /\ http[t].max_retries > 0
        /\ http[t].retries = 0
        /\ obs[t].requests = 1
FailureOrErrorStatus(a) ==
    \/ a.error # ""
    \/ ~IsSuccess(a.resp.status) /\ ~IsRateLimitError(a.resp.status, a.resp.body)

\* C13 as stated: given the same answers, every one a transport failure, a
\* 401/403 or another non-success status, post_with_retry and post_stream
\* issue the same number of requests and return the same error class
C13_StreamingAsBuffered ==
    (/\ http[BufferedCaller].pc = "done"
     /\ http[StreamCaller].pc = "done"
     /\ \A i \in 1..Len(script) : FailureOrErrorStatus(script[i]))
        => /\ obs[StreamCaller].requests = obs[BufferedCaller].requests
           /\ http[StreamCaller].ret.kind = http[BufferedCaller].ret.kind
(***************************************************************************)
(* Claims about the accumulator                                             *)
(***************************************************************************)
\* the tool call deltas of the choices cs, in the order process_chunk meets
\* them
RECURSIVE DeltasOfChoices(_)
DeltasOfChoices(cs) ==
    IF cs = <<>> THEN <<>>
    ELSE (IF Head(cs).delta.tool_calls = NoneOf THEN <<>> ELSE Unwrap(Head(cs).delta.tool_calls))
             \o DeltasOfChoices(Tail(cs))

\* the tool call deltas of the chunks, in the order of arrival
RECURSIVE DeltasOf(_)
DeltasOf(chunks) ==
    IF chunks = <<>> THEN <<>>
    ELSE DeltasOfChoices(Head(chunks).choices) \o DeltasOf(Tail(chunks))

\* those of them for the index i
OfIndex(ds, i) == SelectSeq(ds, LAMBDA d : d.index = i)

\* the ids, types, names and argument fragments the deltas ds supply
IdsIn(ds) == SelectSeq([k \in 1..Len(ds) |-> ds[k].id], LAMBDA o : o # NoneOf)
TypesIn(ds) == SelectSeq([k \in 1..Len(ds) |-> ds[k].call_type], LAMBDA o : o # NoneOf)
NamesIn(ds) ==
    SelectSeq([k \in 1..Len(ds) |->
                  IF ds[k].function = NoneOf THEN NoneOf ELSE Unwrap(ds[k].function).name],
              LAMBDA o : o # NoneOf)
FragmentsIn(ds) ==
    SelectSeq([k \in 1..Len(ds) |->
                  IF ds[k].function = NoneOf THEN NoneOf ELSE Unwrap(ds[k].function).arguments],
              LAMBDA o : o # NoneOf)

\* the first of the supplied values, or the default when none was supplied
FirstOr(supplied, default) == IF supplied = <<>> THEN default ELSE Unwrap(Head(supplied))

\* s is a prefix of t
IsPrefix(s, t) == Len(s) <= Len(t) /\ SubSeq(t, 1, Len(s)) = s

\* the chunk process_chunk is called with in this step
Processes(chunk) == fed' = Append(fed, chunk)

\* C14 as stated: the id, the type and the function name of the tool call
\* entry i are those of the first delta for index i that supplies each, and
\* no later delta changes them; the argument text of the entry only grows
\* by appending
C14_IdentitySetOnce ==
    /\ [](\A i \in 1..Len(acc.tool_calls) :
            LET mine == OfIndex(DeltasOf(fed), i - 1)
            IN  /\ acc.tool_calls[i].id = FirstOr(IdsIn(mine), "")
                /\ acc.tool_calls[i].call_type = FirstOr(TypesIn(mine), "")
                /\ acc.tool_calls[i].name = FirstOr(NamesIn(mine), <<>>))
    /\ [][\A i \in 1..Len(acc.tool_calls) :
            /\ i <= Len(acc'.tool_calls)
            /\ IsPrefix(acc.tool_calls[i].arguments, acc'.tool_calls[i].arguments)]_vars

\* the last value of a sequence of supplied values, or the default
LastOr(supplied, default) ==
    IF supplied = <<>> THEN default ELSE Unwrap(supplied[Len(supplied)])

\* the concatenation of the supplied texts
RECURSIVE Concat(_)
Concat(supplied) ==
    IF supplied = <<>> THEN <<>> ELSE Unwrap(Head(supplied)) \o Concat(Tail(supplied))

\* the entry the deltas ds for one index make
EntryOf(ds) ==
    [id |-> LastOr(IdsIn(ds), ""), call_type |-> LastOr(TypesIn(ds), ""),
     name |-> Concat(NamesIn(ds)), arguments |-> Concat(FragmentsIn(ds))]

\* the largest index of the deltas ds
LargestIndex(ds) == CHOOSE i \in {ds[k].index : k \in 1..Len(ds)} : \A k \in 1..Len(ds) : ds[k].index <= i

\* C15: the tool call entry i is made of the deltas for index i alone, in
\* their order; there are as many entries as the largest index seen plus
\* one, the entries of indices no delta came for being empty; a chunk
\* changes no entry it has no delta for, and moves none
C15_EntriesByIndex ==
    /\ [](LET ds == DeltasOf(fed)
          IN  /\ Len(acc.tool_calls) = IF ds = <<>> THEN 0 ELSE LargestIndex(ds) + 1
              /\ \A i \in 1..Len(acc.tool_calls) :
                    /\ acc.tool_calls[i] = EntryOf(OfIndex(ds, i - 1))
                    /\ OfIndex(ds, i - 1) = <<>> => acc.tool_calls[i] = DefaultToolCall)
    /\ [][\A chunk \in Chunks : Processes(chunk) =>
            \A i \in 1..Len(acc.tool_calls) :
                /\ i <= Len(acc'.tool_calls)
                /\ OfIndex(DeltasOfChoices(chunk.choices), i - 1) = <<>>
                      => acc'.tool_calls[i] = acc.tool_calls[i]]_vars

\* C15's case: the first delta came for the last index, a later one for
\* index 0, none for the index between
C15_Witness ==
    /\ Len(fed) = MaxChunks
    /\ DeltasOf(fed) # <<>>
    /\ DeltasOf(fed)[1].index = MaxIndex
    /\ Len(acc.tool_calls) = MaxIndex + 1
    /\ acc.tool_calls[1].arguments = <<"a", "b">>
    /\ acc.tool_calls[2] = DefaultToolCall
    /\ acc.tool_calls[MaxIndex + 1].id = "call_1"
\* the accumulator after process_chunk was called with each of the chunks
RECURSIVE Fold(_, _)
Fold(a, chunks) == IF chunks = <<>> THEN a ELSE Fold(AfterChunk(a, Head(chunks)), Tail(chunks))

\* the chunk has one choice, which has one tool call delta
SingleDelta(chunk) ==
    /\ Len(chunk.choices) = 1
    /\ chunk.choices[1].delta.tool_calls # NoneOf
    /\ Len(Unwrap(chunk.choices[1].delta.tool_calls)) = 1
TheDelta(chunk) == Unwrap(chunk.choices[1].delta.tool_calls)[1]
WithDelta(chunk, d) == [chunk EXCEPT !.choices[1].delta.tool_calls = Some(<<d>>)]

\* the argument fragment of a delta, if it has one
HasFragment(d) == d.function # NoneOf /\ Unwrap(d.function).arguments # NoneOf
FragmentOf(d) == Unwrap(Unwrap(d.function).arguments)
WithFragment(d, x) == [d EXCEPT !.function = Some([Unwrap(d.function) EXCEPT !.arguments = Some(x)])]

\* the orders of arrival of the deltas of the chunks that keep the order of
\* the deltas of each index: p[k] is the delta that arrives k-th
Orders(chunks) ==
    {p \in [1..Len(chunks) -> 1..Len(chunks)] :
        /\ \A j, k \in 1..Len(chunks) : j # k => p[j] # p[k]
        /\ \A j, k \in 1..Len(chunks) :
              (j < k /\ TheDelta(chunks[p[j]]).index = TheDelta(chunks[p[k]]).index)
                  => p[j] < p[k]}
Reordered(chunks, p) == [k \in 1..Len(chunks) |-> WithDelta(chunks[k], TheDelta(chunks[p[k]]))]

\* the deltas j and k are for one index and carry its j-th and next fragment
NextFragments(chunks, j, k) ==
    /\ j < k
    /\ TheDelta(chunks[j]).index = TheDelta(chunks[k]).index
    /\ HasFragment(TheDelta(chunks[j])) /\ HasFragment(TheDelta(chunks[k]))
    /\ \A m \in (j + 1)..(k - 1) :
          ~(TheDelta(chunks[m]).index = TheDelta(chunks[j]).index /\ HasFragment(TheDelta(chunks[m])))

\* the chunks with the fragments of the deltas j and k swapped
Swapped(chunks, j, k) ==
    [chunks EXCEPT
        ![j] = WithDelta(@, WithFragment(TheDelta(chunks[j]), FragmentOf(TheDelta(chunks[k])))),
        ![k] = WithDelta(@, WithFragment(TheDelta(chunks[k]), FragmentOf(TheDelta(chunks[j]))))]

\* the argument text of the entry of delta j's index after the chunks
ArgumentsAfter(chunks, j) ==
    Fold(NewAccumulator, chunks).tool_calls[TheDelta(chunks[j]).index + 1].arguments

\* every order of the deltas that keeps the order within each index leaves
\* the accumulator process_chunk has left
SameInEveryOrder ==
    \A p \in Orders(fed) : Fold(NewAccumulator, Reordered(fed, p)) = acc

\* C16 as stated: deltas for different indices give the same final state in
\* every order that keeps the order within each index; swapping two
\* different argument fragments of one index gives a different argument
\* text
C16_OrderAcrossAndWithin ==
    (\A k \in 1..Len(fed) : SingleDelta(fed[k])) =>
        /\ SameInEveryOrder
        /\ \A j, k \in 1..Len(fed) :
              (NextFragments(fed, j, k)
               /\ FragmentOf(TheDelta(fed[j])) # FragmentOf(TheDelta(fed[k])))
                  => ArgumentsAfter(Swapped(fed, j, k), j) # ArgumentsAfter(fed, j)

\* C16 amended: deltas for different indices give the same final state in
\* every order that keeps the order within each index; swapping two
\* fragments x and y of one index that follow one another changes the
\* argument text exactly when x followed by y is another text than y
\* followed by x
C16_OrderAcrossAndWithinAmended ==
    (\A k \in 1..Len(fed) : SingleDelta(fed[k])) =>
        /\ SameInEveryOrder
        /\ \A j, k \in 1..Len(fed) :
              NextFragments(fed, j, k) =>
                  LET x == FragmentOf(TheDelta(fed[j]))
                      y == FragmentOf(TheDelta(fed[k]))
                  IN  /\ ArgumentsAfter(fed, j) = acc.tool_calls[TheDelta(fed[j]).index + 1].arguments
                      /\ (ArgumentsAfter(Swapped(fed, j, k), j) # ArgumentsAfter(fed, j))
                             <=> (x \o y # y \o x)

\* C16's case: deltas of index 0 with the fragments a and b, a delta of the
\* last index between them
C16_Witness ==
    /\ Len(fed) = MaxChunks
    /\ \A k \in 1..Len(fed) : SingleDelta(fed[k])
    /\ TheDelta(fed[1]).index = 0 /\ TheDelta(fed[2]).index = MaxIndex
    /\ NextFragments(fed, 1, 3)
    /\ acc.tool_calls[1].arguments = <<"a", "b">>
    /\ acc.tool_calls[MaxIndex + 1].id = "call_1"
\* the choices of the chunks, in the order process_chunk meets them
RECURSIVE ChoicesOf(_)
ChoicesOf(chunks) ==
    IF chunks = <<>> THEN <<>> ELSE Head(chunks).choices \o ChoicesOf(Tail(chunks))

\* the options that are Some, in their order
Carried(options) == SelectSeq(options, LAMBDA o : o # NoneOf)

\* the content deltas, the roles and the finish reasons the choices cs carry
ContentsIn(cs) == Carried([k \in 1..Len(cs) |-> cs[k].delta.content])
RolesIn(cs) == Carried([k \in 1..Len(cs) |-> cs[k].delta.role])
FinishReasonsIn(cs) == Carried([k \in 1..Len(cs) |-> cs[k].finish_reason])

\* the usages the chunks carry, in the order of arrival
UsagesOf(chunks) == Carried([k \in 1..Len(chunks) |-> chunks[k].usage])

\* the first and the last of the carried values, as an Option
FirstCarried(carried) == IF carried = <<>> THEN NoneOf ELSE Head(carried)
LastCarried(carried) == IF carried = <<>> THEN NoneOf ELSE carried[Len(carried)]

\* the two chunks of test_stream_accumulator
HelloChunk == Chunk(MetaA, <<Choice(0, Some("assistant"), Some(Hello), NoneOf, NoneOf)>>, NoneOf)
WorldChunk == Chunk(MetaA, <<Choice(0, NoneOf, Some(World), NoneOf, Some("stop"))>>, NoneOf)

\* C17: the accumulated content is the concatenation of the content deltas
\* in the order of the chunks and, within a chunk, of the choices; no chunk
\* shortens it; "Hello" then " World" gives "Hello World"
C17_ContentIsConcatenation ==
    /\ [](/\ acc.content = Concat(ContentsIn(ChoicesOf(fed)))
          /\ fed = <<HelloChunk, WorldChunk>> =>
                acc.content = <<"H", "e", "l", "l", "o", " ", "W", "o", "r", "l", "d">>)
    /\ [][IsPrefix(acc.content, acc'.content)]_vars

\* C17's case: a chunk of two choices with a content delta each, then the
\* two chunks of the example
C17_Witness ==
    /\ Len(fed) = MaxChunks
    /\ Len(ContentsIn(fed[1].choices)) = 2
    /\ SubSeq(fed, 2, 3) = <<HelloChunk, WorldChunk>>
    /\ acc.content = <<"a", "b", "H", "e", "l", "l", "o", " ", "W", "o", "r", "l", "d">>

\* C18: id, model and created are those of the first chunk processed, the
\* role is that of the first choice that carried one, and none of the four
\* changes once it is set
C18_MetadataFromFirst ==
    /\ [](/\ fed = <<>> => acc.id = NoneOf /\ acc.model = NoneOf /\ acc.created = NoneOf
          /\ fed # <<>> => /\ acc.id = Some(fed[1].id)
                           /\ acc.model = Some(fed[1].model)
                           /\ acc.created = Some(fed[1].created)
          /\ acc.role = FirstCarried(RolesIn(ChoicesOf(fed))))
    /\ [][/\ acc.id # NoneOf => acc'.id = acc.id
          /\ acc.model # NoneOf => acc'.model = acc.model
          /\ acc.created # NoneOf => acc'.created = acc.created
          /\ acc.role # NoneOf => acc'.role = acc.role]_vars

\* C18's case: the first chunk carried no role, the second the role
\* "assistant", and the third another id and another role
C18_Witness ==
    /\ Len(fed) = MaxChunks
    /\ RolesIn(fed[1].choices) = <<>>
    /\ fed[MaxChunks].id # fed[1].id
    /\ RolesIn(fed[MaxChunks].choices) = <<Some("user")>>
    /\ acc.id = Some(fed[1].id)
    /\ acc.role = Some("assistant")

\* C19: the finish reason is that of the last choice that carried one, the
\* usage that of the last chunk that carried one, and a chunk that carries
\* neither leaves both as they were
C19_LastFinishReasonAndUsage ==
    /\ [](/\ acc.finish_reason = LastCarried(FinishReasonsIn(ChoicesOf(fed)))
          /\ acc.usage = LastCarried(UsagesOf(fed)))
    /\ [][\A chunk \in Chunks :
            (/\ Processes(chunk)
             /\ chunk.usage = NoneOf
             /\ FinishReasonsIn(chunk.choices) = <<>>)
                => acc'.finish_reason = acc.finish_reason /\ acc'.usage = acc.usage]_vars

\* C19's case: two chunks carried a finish reason and a usage, the last
\* chunk carried neither
C19_Witness ==
    /\ Len(fed) = MaxChunks
    /\ Len(FinishReasonsIn(ChoicesOf(fed))) = 2
    /\ Len(UsagesOf(fed)) = 2
    /\ fed[MaxChunks].usage = NoneOf
    /\ FinishReasonsIn(fed[MaxChunks].choices) = <<>>
    /\ acc.finish_reason = Some("stop")
    /\ acc.usage = Some(UsageB)
    /\ UsagesOf(fed)[1] = Some(UsageA)

\* C20: the message of into_message has the accumulated role, or
\* "assistant" when there is none, the accumulated text as plain text, no
\* tool calls when no tool call delta was processed, and otherwise the
\* accumulated entries in the order of their indices
C20_IntoMessage ==
    message # NoneOf =>
        LET m == Unwrap(message)
        IN  /\ m.role = IF acc.role = NoneOf THEN "assistant" ELSE Unwrap(acc.role)
            /\ m.content = [variant |-> "Text", text |-> acc.content]
            /\ DeltasOf(fed) = <<>> => m.tool_calls = NoneOf
            /\ DeltasOf(fed) # <<>> =>
                  /\ m.tool_calls # NoneOf
                  /\ Len(Unwrap(m.tool_calls)) = Len(acc.tool_calls)
                  /\ \A i \in 1..Len(acc.tool_calls) :
                        LET call == Unwrap(m.tool_calls)[i]
                        IN  /\ call.id = acc.tool_calls[i].id
                            /\ call.call_type = acc.tool_calls[i].call_type
                            /\ call.function.name = acc.tool_calls[i].name
                            /\ call.function.arguments = acc.tool_calls[i].arguments

\* C20's case: the message of a stream that carried no role, some content
\* and deltas for two tool calls
C20_Witness ==
    /\ message # NoneOf
    /\ acc.role = NoneOf
    /\ acc.content # <<>>
    /\ Unwrap(message).role = "assistant"
    /\ Unwrap(message).tool_calls # NoneOf
    /\ Len(Unwrap(Unwrap(message).tool_calls)) = 2
    /\ Unwrap(Unwrap(message).tool_calls)[2].id = "call_1"
    /\ Unwrap(Unwrap(message).tool_calls)[1].function.arguments = <<"b">>
(***************************************************************************)
(* Claims about the lines of a stream                                       *)
(***************************************************************************)
EventField == <<"e", "v", "e", "n", "t", ":">>
IdField == <<"i", "d", ":">>
RetryField == <<"r", "e", "t", "r", "y", ":">>

\* the kinds of lines, told by the text of the line
BlankLine(line) == Trim(line) = <<>>
CommentLine(line) == StartsWith(Trim(line), <<":">>)
FieldLine(line) == \E field \in {EventField, IdField, RetryField} : StartsWith(Trim(line), field)
\* what follows the data marker, trimmed
PayloadOf(line) == Trim(SubSeq(line, Len(DataPrefix) + 1, Len(line)))
DoneLine(line) == StartsWith(line, DataPrefix) /\ PayloadOf(line) = DoneSignal

\* what a call of parse_sse_line gave
YieldsNothing(call) == call.res.ok /\ call.res.chunk = NoneOf /\ call.res.error = NoneOf
YieldsChunk(call) == call.res.ok /\ call.res.chunk # NoneOf /\ call.res.error = NoneOf
YieldsError(call) == ~call.res.ok /\ call.res.chunk = NoneOf /\ call.res.error # NoneOf

\* C21 as stated: a blank line, a comment line, an event, id or retry
\* field and a data line whose trimmed payload is [DONE] give no chunk and
\* no error; every other line that begins with the data marker gives one
\* chunk if its payload parses and an error if it does not
C21_LineClassification ==
    \A i \in 1..Len(recv.calls) :
        LET call == recv.calls[i]
            line == call.line
        IN  IF BlankLine(line) \/ CommentLine(line) \/ FieldLine(line) \/ DoneLine(line)
            THEN YieldsNothing(call)
            ELSE StartsWith(line, DataPrefix)
                    => IF FromStr(PayloadOf(line)) # NoneOf
                       THEN YieldsChunk(call) /\ call.res.chunk = FromStr(PayloadOf(line))
                       ELSE YieldsError(call)

\* C21, amended: the line is trimmed first, so the marker is looked for in
\* the trimmed line. A trimmed line that begins with the data marker gives
\* nothing if its trimmed payload is [DONE], one chunk if the payload
\* parses, an error otherwise; every other line gives no chunk and no
\* error: so does a line that is nothing but the marker, whose last space
\* the trimming takes away
C21_LineClassificationAmended ==
    \A i \in 1..Len(recv.calls) :
        LET call == recv.calls[i]
            line == Trim(call.line)
        IN  IF StartsWith(line, DataPrefix) /\ PayloadOf(line) # DoneSignal
            THEN IF FromStr(PayloadOf(line)) # NoneOf
                 THEN YieldsChunk(call) /\ call.res.chunk = FromStr(PayloadOf(line))
                 ELSE YieldsError(call)
            ELSE YieldsNothing(call)

\* a line that is nothing but the marker was met and gave nothing, a data
\* line gave its chunk and another an error
C21_Witness ==
    /\ \E i \in 1..Len(recv.calls) :
          recv.calls[i].line = DataEmpty /\ YieldsNothing(recv.calls[i])
    /\ \E i \in 1..Len(recv.calls) :
          recv.calls[i].line = DataOne /\ YieldsChunk(recv.calls[i])
    /\ \E i \in 1..Len(recv.calls) :
          recv.calls[i].line = DataBad /\ YieldsError(recv.calls[i])
\* the first done line among the lines parse_sse_line was called with, or
\* 0 if there is none
FirstDone(calls) ==
    IF \E i \in 1..Len(calls) : DoneLine(Trim(calls[i].line))
    THEN CHOOSE i \in 1..Len(calls) :
            /\ DoneLine(Trim(calls[i].line))
            /\ \A j \in 1..(i - 1) : ~DoneLine(Trim(calls[j].line))
    ELSE 0

\* the chunks of the calls, in the order of the calls
RECURSIVE ChunksOf(_)
ChunksOf(calls) ==
    IF calls = <<>> THEN <<>>
    ELSE ChunksOf(SubSeq(calls, 1, Len(calls) - 1)) \o calls[Len(calls)].res.chunk

\* C22 as stated: once the [DONE] line was met, with no parse failure before
\* it, the call returns without error, and the chunks it returns are those
\* of the data lines before the [DONE] line, in the order they arrived,
\* whatever follows the [DONE] line
C22_DoneIsTerminal ==
    LET done == FirstDone(recv.calls)
    IN  (recv.pc = "done" /\ done > 0)
            => /\ recv.ret.ok
               /\ recv.returned = ChunksOf(SubSeq(recv.calls, 1, done - 1))
\* the lines of a body: what stands between its line feeds
RECURSIVE LinesOf(_)
LinesOf(body) ==
    IF ~ContainsChar(body, "\n") THEN <<body>>
    ELSE <<SubSeq(body, 1, Find(body, "\n") - 1)>>
            \o LinesOf(SubSeq(body, Find(body, "\n") + 1, Len(body)))

\* the chunks of the data lines whose payload parses, in the order of the lines
RECURSIVE ValidChunks(_)
ValidChunks(lines) ==
    IF lines = <<>> THEN <<>>
    ELSE (IF StartsWith(Trim(lines[1]), DataPrefix) THEN FromStr(PayloadOf(Trim(lines[1]))) ELSE <<>>)
            \o ValidChunks(Tail(lines))

\* a data line whose payload did not parse was met
ParseFailureMet == \E i \in 1..Len(recv.calls) : YieldsError(recv.calls[i])

\* C23 as stated: a data line whose payload does not parse gives a stream
\* error that carries the payload, and the stream goes on: unless the
\* transport fails, the call delivers the chunks of the valid data lines
\* before and after that line
C23_ParseFailureNotFatal ==
    /\ \A i \in 1..Len(recv.calls) :
          YieldsError(recv.calls[i])
             => /\ Unwrap(recv.calls[i].res.error).kind = "Stream"
                /\ EndsWith(Unwrap(recv.calls[i].res.error).message,
                            PayloadOf(Trim(recv.calls[i].line)))
    /\ (recv.pc = "done" /\ ParseFailureMet /\ recv.ret.kind \in {"Ok", "Stream"})
          => recv.returned = ValidChunks(LinesOf(recv.body))
(***************************************************************************)
(* Claims about the routes                                                  *)
(***************************************************************************)
\* the segments of the string are 2 or 3, and none is empty
WellFormed(s) ==
    /\ Len(Split(s)) \in {2, 3}
    /\ \A i \in 1..Len(Split(s)) : Split(s)[i] # <<>>

\* C24 as stated: parse succeeds exactly on the strings of 2 or 3 segments
\* that are all non-empty; 2 segments give provider and model and no
\* variant, 3 give provider, model and variant; every other string fails
\* with a configuration error that names the string
C24_ParseAcceptsWellFormed ==
    routing.pc = "parsed"
        => LET s == routing.input
               parts == Split(s)
               res == routing.result
           IN  /\ res.ok <=> WellFormed(s)
               /\ (res.ok /\ Len(parts) = 2)
                     => res.route = Some(Route(parts[1], parts[2], NoneOf))
               /\ (res.ok /\ Len(parts) = 3)
                     => res.route = Some(Route(parts[1], parts[2], Some(parts[3])))
               /\ ~res.ok
                     => /\ Unwrap(res.error).kind = "Config"
                        /\ Contains(Unwrap(res.error).message, s)

\* C25: for every string parse accepts, the displayed route is the string,
\* and model_id is the model alone without a variant and model/variant
\* with one: the string without its provider segment and the separator
C25_DisplayAndModelId ==
    (routing.pc = "parsed" /\ routing.result.ok)
        => LET s == routing.input
               route == Unwrap(routing.result.route)
           IN  /\ routing.shown # NoneOf => Unwrap(routing.shown) = s
               /\ routing.model_id # NoneOf
                     => /\ Unwrap(routing.model_id) =
                              SubSeq(s, Len(route.provider) + 2, Len(s))
                        /\ route.variant = NoneOf => Unwrap(routing.model_id) = route.model
                        /\ route.variant # NoneOf
                              => Unwrap(routing.model_id) =
                                    route.model \o <<"/">> \o Unwrap(route.variant)

\* a string with a variant was parsed, displayed and asked for its model id
C25_Witness ==
    /\ routing.pc = "parsed"
    /\ routing.input = <<"a", "/", "b", "b", "/", "a">>
    /\ routing.result.ok
    /\ routing.shown = Some(routing.input)
    /\ routing.model_id = Some(<<"b", "b", "/", "a">>)
(***************************************************************************)
(* Claims about what the tracker's updates write                            *)
(***************************************************************************)
\* the header is present and its text parses as a count
RemainingParses(headers) ==
    /\ RemainingHeader \in DOMAIN headers
    /\ ToStrOk(headers[RemainingHeader])
    /\ ParseUnsigned(headers[RemainingHeader]) # None

\* the header is present and its text parses as seconds or as a duration
ResetParses(headers) ==
    /\ ResetHeader \in DOMAIN headers
    /\ ToStrOk(headers[ResetHeader])
    /\ \/ ParseUnsigned(headers[ResetHeader]) # None
       \/ ParseDurationString(headers[ResetHeader]) # None

\* C26: update_from_response changes the stored remaining count of the
\* provider only when the remaining header is present and parses, and the
\* reset deadline only when the reset header is present and parses; with
\* neither, every stored field of the provider is as before; the
\* retry-after field is never written, nor is any field of another provider
C26_ResponseFrame ==
    [][\A p \in TrackerProviders, h \in ResponseHeaders :
          UpdateFromResponse(p, h)
             => LET old == EntryOrDefault(p)
                    new == providers'[p]
                IN  /\ new.requests_remaining # old.requests_remaining => RemainingParses(h)
                    /\ new.reset_at # old.reset_at => ResetParses(h)
                    /\ (~RemainingParses(h) /\ ~ResetParses(h)) => new = old
                    /\ new.retry_after = old.retry_after
                    /\ new.tokens_remaining = old.tokens_remaining
                    /\ \A q \in DOMAIN providers \ {p} :
                          q \in DOMAIN providers' /\ providers'[q] = providers[q]]_vars

\* a response whose two headers are present and do not parse has just been
\* recorded for a provider with a stored count, deadline and retry-after,
\* and a count and a deadline are still stored
C26_Witness ==
    /\ JustCalled("update_from_response")
    /\ DOMAIN last_call.headers = {RemainingHeader, ResetHeader}
    /\ ~RemainingParses(last_call.headers)
    /\ ~ResetParses(last_call.headers)
    /\ last_call.provider \in DOMAIN providers
    /\ providers[last_call.provider].requests_remaining = 5
    /\ providers[last_call.provider].reset_at # None
    /\ providers[last_call.provider].retry_after = 1000
\* the duration a retry-after header gives, in ms: its seconds, or its
\* duration string; None if the header is absent or its text does not parse
RetryAfterOf(headers) ==
    IF RetryAfterHeader \notin DOMAIN headers \/ ~ToStrOk(headers[RetryAfterHeader]) THEN None
    ELSE IF ParseUnsigned(headers[RetryAfterHeader]) # None
    THEN 1000 * ParseUnsigned(headers[RetryAfterHeader])
    ELSE ParseDurationString(headers[RetryAfterHeader])

\* C27: update_from_rate_limit_error returns the duration of the retry-after
\* header when the header is present and parses ("1" is one second, "1m30s"
\* ninety), and 60 seconds otherwise; after the call the stored retry-after
\* of the provider is the returned duration and its reset deadline is the
\* time of the call plus that duration
C27_RateLimitErrorDuration ==
    JustCalled("update_from_rate_limit_error")
        => LET h == last_call.headers
               info == providers[last_call.provider]
           IN  /\ RetryAfterOf(h) # None => last_call.ret = RetryAfterOf(h)
               /\ RetryAfterOf(h) = None => last_call.ret = 60000
               /\ h = (RetryAfterHeader :> <<"1">>) => last_call.ret = 1000
               /\ h = (RetryAfterHeader :> <<"1", "m", "3", "0", "s">>) => last_call.ret = 90000
               /\ info.retry_after = last_call.ret
               /\ info.reset_at = last_call.at + last_call.ret

\* the call was made with a header of ninety seconds after the clock had
\* moved, for a provider that had a retry-after of one second stored
C27_Witness ==
    /\ JustCalled("update_from_rate_limit_error")
    /\ last_call.headers = (RetryAfterHeader :> <<"1", "m", "3", "0", "s">>)
    /\ last_call.at > 0
    /\ providers[last_call.provider].retry_after = 90000
    /\ providers[last_call.provider].reset_at = now + 90000
    /\ paired_reset[last_call.provider] = now + 90000
(***************************************************************************)
(* Claims about the cooldown of a credential                                *)
(***************************************************************************)
\* the pool of the provider after the step differs from the pool before it
\* in the cooldown deadline of key i only
OnlyDeadlineOf(prov, i) ==
    /\ DOMAIN key_pools' = DOMAIN key_pools
    /\ \A q \in DOMAIN key_pools \ {prov} : key_pools'[q] = key_pools[q]
    /\ key_pools'[prov] =
          [key_pools[prov] EXCEPT
              !.keys[i].rate_limited_until = key_pools'[prov].keys[i].rate_limited_until]

\* C28: when the requests made with a pooled credential are answered with
\* HTTP 429 and no retry-after header, the send ends RateLimited, and the
\* completion then sets the cooldown deadline of that credential to the
\* time of the marking plus 60 seconds, and changes nothing else in the pools
C28_DefaultCooldown ==
    /\ [](\A t \in Callers : http[t].pc = "done" => http[t].ret.kind = "RateLimited")
    /\ [][\A t \in Callers :
             (CompletionMatch(t) /\ comp[t].provider \in DOMAIN key_pools)
                => \E i \in 1..Len(key_pools[comp[t].provider].keys) :
                      /\ key_pools[comp[t].provider].keys[i].value = comp[t].api_key
                      /\ key_pools'[comp[t].provider].keys[i].rate_limited_until = now + 60000
                      /\ OnlyDeadlineOf(comp[t].provider, i)]_vars

\* on a pool of two different credentials the first was answered with 429
\* four times, after the clock had moved, and it alone is cooled down
C28_Witness ==
    \E t \in Callers :
        /\ comp[t].pc = "acquire"
        /\ comp[t].attempt = 1
        /\ obs[t].requests = CompletionMaxRetries + 1
        /\ Len(key_pools[comp[t].provider].keys) = 2
        /\ key_pools[comp[t].provider].keys[1].value # key_pools[comp[t].provider].keys[2].value
        /\ \E i \in 1..2 :
              /\ key_pools[comp[t].provider].keys[i].rate_limited_until > 60000
              /\ key_pools[comp[t].provider].keys[3 - i].rate_limited_until = None
(***************************************************************************)
(* Claims about the classification of answers                               *)
(***************************************************************************)
\* the characters are the same letter, in whatever case
SameLetter(c, d) ==
    \/ c = d
    \/ \E k \in 1..Len(LowerChars) : {c, d} = {LowerChars[k], UpperChars[k]}

\* the text holds the marker, compared without regard to case
HoldsIgnoringCase(text, marker) ==
    \E i \in 1..(Len(text) - Len(marker) + 1) :
        \A k \in 1..Len(marker) : SameLetter(text[i + k - 1], marker[k])

\* C29: is_rate_limit_error(status, body) is true exactly when the status is
\* 429 or the body holds, compared without regard to case, one of "rate
\* limit", "rate_limit", "too many requests", "quota exceeded"
C29_SignalExactly ==
    verdict.called
        => (verdict.result <=>
               \/ verdict.status = 429
               \/ \E marker \in {<<"r", "a", "t", "e", " ", "l", "i", "m", "i", "t">>,
                                 <<"r", "a", "t", "e", "_", "l", "i", "m", "i", "t">>,
                                 <<"t", "o", "o", " ", "m", "a", "n", "y", " ",
                                   "r", "e", "q", "u", "e", "s", "t", "s">>,
                                 <<"q", "u", "o", "t", "a", " ",
                                   "e", "x", "c", "e", "e", "d", "e", "d">>} :
                     HoldsIgnoringCase(verdict.body, marker))

\* the call of the unit test with 403 and "Too Many Requests" has given true
C29_Witness ==
    /\ verdict.called
    /\ verdict.status = 403
    /\ verdict.body = <<"T", "o", "o", " ", "M", "a", "n", "y", " ",
                        "R", "e", "q", "u", "e", "s", "t", "s">>
    /\ verdict.result
(***************************************************************************)
(* Claims about what select() writes                                        *)
(***************************************************************************)
\* the step is a step of some get_key call
SelectStep == \E t \in Threads : sel'[t] # sel[t]

\* field `f` of some key of some pool is changed by the step
KeyFieldChanged(f) ==
    \E p \in DOMAIN key_pools :
        \E i \in 1..Len(key_pools[p].keys) : key_pools'[p].keys[i][f] # key_pools[p].keys[i][f]

\* C30: a step of get_key, under every rotation policy, leaves the cooldown
\* deadline, the request count and the last-used timestamp of every key as
\* they are, and changes nothing of a pool but the cursor, which only moves
\* forward and only under round robin; a request count or a last-used
\* timestamp changes only in a record_usage step, a cooldown deadline only in
\* a step of mark_rate_limited or clear_rate_limit
C30_SelectRecordsNoUsage ==
    [][/\ SelectStep
          => \A p \in DOMAIN key_pools :
                /\ key_pools'[p].keys = key_pools[p].keys
                /\ key_pools'[p].strategy = key_pools[p].strategy
                /\ key_pools'[p].current_index >= key_pools[p].current_index
                /\ key_pools[p].strategy # "RoundRobin"
                      => key_pools'[p].current_index = key_pools[p].current_index
       /\ (KeyFieldChanged("request_count") \/ KeyFieldChanged("last_used"))
          => \E i \in 1..MaxKeys : RecordUsage(i)
       /\ KeyFieldChanged("rate_limited_until")
          => \/ \E v \in 1..MaxKeys : MarkRateLimited(v, 2000)
             \/ \E i \in 1..MaxKeys : KeyMarkRateLimited(i, 2000)
             \/ \E i \in 1..MaxKeys : ClearRateLimit(i)]_vars

\* get_key has returned the second key of a pool whose first key is cooled
\* down and whose second key has been used; the cursor has advanced
C30_Witness ==
    /\ sel["t1"].pc = "ret"
    /\ sel["t1"].result = 2
    /\ Len(key_pools[PoolProvider].keys) = 2
    /\ key_pools[PoolProvider].current_index = 2
    /\ IsRateLimited(key_pools[PoolProvider].keys[1])
    /\ key_pools[PoolProvider].keys[1].request_count = 0
    /\ key_pools[PoolProvider].keys[2].request_count = MaxUsage
    /\ key_pools[PoolProvider].keys[2].rate_limited_until = None
(***************************************************************************)
(* Claims about the least-recently-used rotation                            *)
(***************************************************************************)
\* C31 as stated: under least-recently-used rotation a get_key call during
\* which no cooldown changes and no usage is recorded returns, while a key
\* without an active cooldown exists, such a key with the smallest last-used
\* value; and it does not return a key whose usage was recorded while a key
\* without an active cooldown has never been used
C31_LruPrefersLeastRecentlyUsed ==
    \A t \in Threads :
        LET prov == sel[t].prov
            k == sel[t].result
            usable == {i \in 1..PoolLen(prov) : ~Cooled(prov, i)}
        IN  (/\ QuietReturn(t)
             /\ key_pools[prov].strategy = "LeastRecentlyUsed"
             /\ usable # {})
                => /\ k \in usable
                   /\ \A j \in usable : KeyAt(prov, k).last_used <= KeyAt(prov, j).last_used
                   /\ \A j \in usable :
                         KeyAt(prov, j).request_count = 0 => KeyAt(prov, k).request_count = 0
(***************************************************************************)
(* Claims about the independence of the providers                           *)
(***************************************************************************)
\* the step leaves the tracker's entry and the pool of provider q as they are
ProviderUntouched(q) ==
    /\ q \in DOMAIN providers' <=> q \in DOMAIN providers
    /\ q \in DOMAIN providers => providers'[q] = providers[q]
    /\ key_pools'[q] = key_pools[q]

\* the step is a step of the completion of thread t
StepOf(t) == comp'[t] # comp[t] \/ http'[t] # http[t] \/ sel'[t] # sel[t]

\* the tracker holds a deadline for provider p that lies ahead, with a
\* used-up quota or a retry-after
DeadlineAhead(p) ==
    /\ p \in DOMAIN providers
    /\ providers[p].reset_at # None
    /\ now < providers[p].reset_at
    /\ \/ providers[p].requests_remaining = 0
       \/ providers[p].retry_after # None

OwnDeadlineAhead(t) == DeadlineAhead(ProviderOf(t))

\* C32: a step of a completion for provider A (select, cooldown, the
\* recording of a response) and a call of update_from_rate_limit_error or
\* clear for A leave the tracker's entry and the pool of every other provider
\* as they are; the wait a send makes before its request is the one of its
\* own provider's deadline and none when that provider has no deadline ahead;
\* and while a send sleeps, on a wait hint or on its backoff, the send of the
\* other provider can check its hint and have its response recorded
C32_ProvidersIndependent ==
    /\ [][/\ \A t \in Threads :
                StepOf(t) => \A q \in Providers \ {ProviderOf(t)} : ProviderUntouched(q)
          /\ last_call' # last_call
                => \A q \in Providers \ {last_call'.provider} : ProviderUntouched(q)
          /\ \A t \in Threads :
                (http[t].pc = "check_wait" /\ http'[t] # http[t])
                   => IF OwnDeadlineAhead(t)
                      THEN /\ http'[t].pc = "sleep"
                           /\ http'[t].wake = providers[ProviderOf(t)].reset_at
                      ELSE http'[t].pc = "send"]_vars
    /\ [](\A t, u \in Threads :
            (t # u /\ http[t].pc = "sleep")
               => /\ http[u].pc = "check_wait" => ENABLED PostCheckWait(u)
                  /\ http[u].pc = "send" => ENABLED PostResponse(u, Success, <<>>))

\* a send for one provider sleeps on the wait hint of its provider, and the
\* completion for the other provider, whose credential has the same value,
\* has been answered meanwhile and has returned
C32_Witness ==
    \E t, u \in Threads :
        /\ t # u
        /\ http[t].pc = "sleep"
        /\ http[t].after = "send"
        /\ now < http[t].wake
        /\ comp[u].pc = "done"
        /\ comp[u].result.kind = "Ok"
        /\ obs[u].requests = 1
        /\ providers[ProviderOf(t)].retry_after = 1000
        /\ providers[ProviderOf(u)] = DefaultRateLimit
(***************************************************************************)
(* Claims about the answers of the buffered send                            *)
(***************************************************************************)
\* HTTP 200 with a body that is read and does not deserialize
Unparsable == Response(200, BodyPlain, "", FALSE)

SleptThrough(k) == 500 * (2^(k + 1) - 2)

\* C34 as stated: the delay before retry k of a post_with_retry call is 500 ms
\* doubled k times and at most the maximum interval of 30 s, and a call does
\* not go into a backoff that takes the time it has spent in backoff beyond
\* the ceiling of 120 s
C34_BackoffCappedAndBounded ==
    \A t \in Callers :
        (http[t].pc = "sleep" /\ http[t].after = "check_wait")
            => LET k == http[t].retries
                   delay == http[t].wake - now
               IN  /\ delay = IF 500 * 2^k <= 30000 THEN 500 * 2^k ELSE 30000
                   /\ delay <= 30000
                   /\ SleptThrough(k) <= 120000
(***************************************************************************)
(* Claims about the wait before a request                                   *)
(***************************************************************************)
\* C35: post_with_retry sends a request only from the head of its loop: a
\* request is sent either right after a check of the wait hint that found no
\* deadline ahead for the provider, or after the sleep that such a check
\* started, which lasts until the deadline the check found; the sleep of a
\* backoff leads back to the check, never to the request
C35_CheckBeforeEveryAttempt ==
    [][\A t \in Callers :
          /\ (http[t].pc # "idle" /\ obs'[t].requests # obs[t].requests)
                => http[t].pc = "send" /\ obs'[t].requests = obs[t].requests + 1
          /\ (http'[t].pc = "send" /\ http[t].pc # "send")
                => \/ http[t].pc = "check_wait" /\ ~DeadlineAhead(http[t].provider)
                   \/ /\ http[t].pc = "sleep"
                      /\ http[t].after = "send"
                      /\ now' >= http[t].wake
          /\ (http[t].pc = "check_wait" /\ http'[t] # http[t])
                => IF DeadlineAhead(http[t].provider)
                   THEN /\ http'[t].pc = "sleep"
                        /\ http'[t].after = "send"
                        /\ http'[t].wake = providers[http[t].provider].reset_at
                        /\ obs'[t] = obs[t]
                   ELSE http'[t].pc = "send"
          /\ (http[t].pc = "send" /\ http'[t].pc = "sleep")
                => http'[t].after = "check_wait"
          /\ (http[t].pc = "sleep" /\ http'[t] # http[t])
                => http'[t].pc = http[t].after /\ now' >= http[t].wake]_vars

\* a retry is about to send its request: its check found the quota used up,
\* and the sleep until the reset deadline is over
C35_Witness ==
    \E t \in Callers :
        /\ http[t].pc = "send"
        /\ http[t].retries = 1
        /\ obs[t].requests = 1
        /\ http[t].after = "send"
        /\ http[t].wake = providers[http[t].provider].reset_at
        /\ providers[http[t].provider].requests_remaining = 0
        /\ now = http[t].wake
(***************************************************************************)
(* Claims about the duration strings                                        *)
(***************************************************************************)
\* the string, trimmed, ends in one of the units "ms", "s", "m", "h"
HasUnitSuffix(str) ==
    \/ EndsWith(Trim(str), <<"s">>)
    \/ EndsWith(Trim(str), <<"m">>)
    \/ EndsWith(Trim(str), <<"h">>)

\* the strings of the unit test parse as the sums of their unit parts
TestedDurationsParse ==
    parse_call.called =>
        /\ parse_call.s = <<"3", "0", "s">> => parse_call.result = 30000
        /\ parse_call.s = <<"5", "m">> => parse_call.result = 300000
        /\ parse_call.s = <<"1", "h">> => parse_call.result = 3600000
        /\ parse_call.s = <<"1", "m", "3", "0", "s">> => parse_call.result = 90000
        /\ parse_call.s = <<"5", "0", "0", "m", "s">> => parse_call.result = 500

\* C36: "30s" parses as 30 s, "5m" as 300 s, "1h" as 3600 s, "1m30s" as
\* 90 s and "500ms" as 500 ms, and a string that does not end in a unit
\* gives no duration
C36_DurationStrings ==
    /\ TestedDurationsParse
    /\ (parse_call.called /\ ~HasUnitSuffix(parse_call.s)) => parse_call.result = None

\* a string that gets a duration without ending in a unit has an hour, or a
\* minute and a second, somewhere before its end
LenientOnlyInCompound ==
    (parse_call.called /\ ~HasUnitSuffix(parse_call.s) /\ parse_call.result # None)
        => (\/ ContainsChar(parse_call.s, "h")
            \/ ContainsChar(parse_call.s, "m") /\ ContainsChar(parse_call.s, "s"))

(***************************************************************************)
(* Claims about the rotation within a completion                            *)
(***************************************************************************)
\* C37: a completion that acquires a credential it has already cooled down
\* in this call does so only when every credential of the pool is cooled down
C37_NextCredentialAfterRateLimit ==
    [][\A t \in Callers :
          (/\ comp[t].pc = "selecting" /\ comp'[t].pc = "sending"
           /\ ~disturbed[t]
           /\ comp'[t].api_key \in obs[t].cooled)
              => AllRateLimited(comp[t].provider)]_vars

\* the credential a completion acquires right after it has cooled one down
\* is another one, unless the cooldown lasts no time or all are cooled down
NextCredentialDiffers ==
    [][\A t \in Callers :
          (/\ comp[t].pc = "selecting" /\ comp'[t].pc = "sending"
           /\ ~disturbed[t]
           /\ comp[t].last_error.kind = "RateLimited"
           /\ comp'[t].api_key = comp[t].api_key)
              => AllRateLimited(comp[t].provider)]_vars

(***************************************************************************)
(* Claims about concurrent callers of the round robin                       *)
(***************************************************************************)
\* C38: under round-robin with no credential cooled down, a select() of
\* any caller takes the cursor value no other select() takes: it advances the
\* cursor by exactly one and returns the credential the value it read names,
\* the cursor never goes back, and of the selections of all callers any n
\* successive ones on a pool of n return n different credentials
C38_ConcurrentRoundRobin ==
    /\ [][\A t \in Threads :
            (/\ sel[t].pc = "round_robin"
             /\ sel'[t] # sel[t]
             /\ LimitedKeys(PoolProvider) = {})
                => /\ key_pools'[PoolProvider].current_index
                         = key_pools[PoolProvider].current_index + 1
                   /\ sel'[t].pc = "ret"
                   /\ sel'[t].result
                         = (key_pools[PoolProvider].current_index % PoolLen(PoolProvider)) + 1
                   /\ \A u \in Threads \ {t} : sel'[u] = sel[u]]_vars
    /\ [][key_pools'[PoolProvider].current_index
              >= key_pools[PoolProvider].current_index]_vars
    /\ [](key_pools[PoolProvider].strategy = "RoundRobin" =>
             \A i, j \in 1..Len(history) :
                 (i < j /\ j - i < PoolLen(PoolProvider)) => history[i] # history[j])

\* C38's case: on the largest pool, new, the two callers hold the results
\* of their first select() at the same time, n selections in all
C38_Witness ==
    /\ key_pools[PoolProvider].strategy = "RoundRobin"
    /\ PoolLen(PoolProvider) = MaxKeys
    /\ sel["t1"].pc = "ret" /\ sel["t2"].pc = "ret"
    /\ sel["t1"].result # sel["t2"].result
    /\ Len(history) >= MaxKeys
    /\ key_pools[PoolProvider].current_index = MaxKeys

(***************************************************************************)
(* Claims about the cooldown by value                                       *)
(***************************************************************************)
\* the positions of the pool that hold the value v
Holders(v) == {i \in 1..PoolLen(PoolProvider) : KeyAt(PoolProvider, i).value = v}

\* C39: cooling down by value sets the deadline of the first credential in
\* pool order that has the value to now + d, whatever deadline it had, and
\* changes nothing else of the pool; with a value no credential has the pool
\* stays as it is
C39_CooldownByValue ==
    [][\A v \in 1..MaxKeys, d \in Durations :
          MarkRateLimited(v, d) =>
              IF Holders(v) = {}
              THEN key_pools' = key_pools
              ELSE LET first == SetMin(Holders(v))
                   IN  /\ KeyAt(PoolProvider, first)' =
                              [KeyAt(PoolProvider, first) EXCEPT
                                  !.rate_limited_until = now + d]
                       /\ \A j \in 1..PoolLen(PoolProvider) \ {first} :
                              KeyAt(PoolProvider, j)' = KeyAt(PoolProvider, j)
                       /\ PoolLen(PoolProvider)' = PoolLen(PoolProvider)
                       /\ key_pools'[PoolProvider].current_index
                              = key_pools[PoolProvider].current_index
                       /\ key_pools'[PoolProvider].strategy
                              = key_pools[PoolProvider].strategy]_vars

\* C39's case: of two credentials with one value the first is cooled down
\* and the second is not
C39_Witness ==
    /\ PoolLen(PoolProvider) = 2
    /\ KeyAt(PoolProvider, 1).value = KeyAt(PoolProvider, 2).value
    /\ KeyAt(PoolProvider, 1).rate_limited_until = now + 1500
    /\ KeyAt(PoolProvider, 2).rate_limited_until = None

(***************************************************************************)
(* Claims about the completion of a route string                            *)
(***************************************************************************)
\* the provider segment of a route string
ProviderSegment(model) == Text(Split(model)[1])

\* the frame of a completion that failed at its entry, with nothing done
FailedAtEntry(t) ==
    /\ comp'[t].pc = "done"
    /\ comp'[t].result.kind \in {"Config", "ProviderNotFound"}
    /\ obs'[t] = NoObservation
    /\ http'[t] = IdlePost /\ sel'[t] = IdleFrame
    /\ key_pools' = key_pools
    /\ providers' = providers

====
